---- MODULE Spec2Model ----
(***************************************************************************)
(* Model of the OFAC sanctions-list service: the CSV row pipeline          *)
(* (netlify/functions/ofac-parser.ts), the ingestion handler              *)
(* (netlify/functions/ofac-update.ts) and the search handler              *)
(* (netlify/functions/ofac-search.ts) around the "ofac" blob store.        *)
(*                                                                         *)
(* A JavaScript string is a sequence of one-character strings.  The two    *)
(* non-string values a row cell or an optional field can hold, undefined   *)
(* and null, are the one-element sequences Undef and Null, whose element   *)
(* is longer than one character and so differs from every string.          *)
(***************************************************************************)
EXTENDS Integers, Sequences, FiniteSets, TLC

VARIABLES
    sdnRows,     \* pipeline: primary rows handed to extractEntities
    altRows,     \* pipeline: alias rows handed to consolidateAltData
    addRows,     \* pipeline: address rows handed to consolidateAddData
    entities,    \* pipeline: the entity array (mutated in place by the consolidators)
    before,      \* pipeline: content of the entity array before the last call
    once,        \* pipeline: content of the entity array after the first alias+address pass
    stage,       \* pipeline: which call was made last
    passes       \* pipeline: completed alias+address passes

VARIABLES
    store,       \* the "ofac" blob store: dataset.json.gz and meta.json
    run,         \* per update invocation: position, locals, response
    starts,      \* update invocations started so far
    now,         \* the clock, in minutes
    cached,      \* ofac-search.ts: the module-level cache of the process
    req,         \* the search request in flight: position, locals, response
    persisted    \* history: the fetched texts of every run that wrote the dataset

VARIABLES
    fnOp,        \* function calls: which function is called
    fnArg,       \* function calls: its argument
    fnOut        \* function calls: the values returned so far

VARIABLES
    cachedEntities,  \* ofac-entity.ts: the module-level cache of the process
    ereq,            \* the entity request in flight: position, locals, response
    limits,          \* the limit parameters the clients of a behaviour send
    queries,         \* the q parameters the clients of a behaviour send
    mreq,            \* the metadata request in flight: position, locals, response
    req2,            \* a second search request in flight in the same process
    feeds            \* the texts the three URLs serve in a behaviour

pipeVars == <<sdnRows, altRows, addRows, entities, before, once, stage, passes>>
svcVars == <<store, run, starts, now, cached, req, persisted>>
fnVars == <<fnOp, fnArg, fnOut>>
readVars == <<cachedEntities, ereq, limits, queries, mreq, req2, feeds>>
vars == <<sdnRows, altRows, addRows, entities, before, once, stage, passes,
          store, run, starts, now, cached, req, persisted,
          fnOp, fnArg, fnOut, cachedEntities, ereq, limits, queries, mreq, req2, feeds>>

-----------------------------------------------------------------------------
(* Values *)

Undef == <<"undefined">>
Null == <<"null">>

\* String.prototype.trim strips WhiteSpace and LineTerminator, U+FEFF included
BOM == "FEFF"
WhiteSpace == {" ", "\t", "\n", "\r", BOM}

RECURSIVE trimStart(_)
trimStart(s) ==
    IF s # <<>> /\ Head(s) \in WhiteSpace THEN trimStart(Tail(s)) ELSE s

RECURSIVE trimEnd(_)
trimEnd(s) ==
    IF s # <<>> /\ s[Len(s)] \in WhiteSpace
    THEN trimEnd(SubSeq(s, 1, Len(s) - 1))
    ELSE s

trim(s) == trimEnd(trimStart(s))

\* String(v)
String(v) ==
    IF v = Null THEN <<"n", "u", "l", "l">>
    ELSE IF v = Undef THEN <<"u", "n", "d", "e", "f", "i", "n", "e", "d">>
    ELSE v

\* JavaScript truthiness of a value that is a string, undefined or null
Truthy(v) == v # Undef /\ v # Null /\ v # <<>>

\* row[k]: undefined when the row has no such key
Get(row, k) == IF k \in DOMAIN row THEN row[k] ELSE Undef

-----------------------------------------------------------------------------
(* Column keys *)

k_ent_num == <<"e", "n", "t", "_", "n", "u", "m">>
k_entnum == <<"e", "n", "t", "n", "u", "m">>
k_uid == <<"u", "i", "d">>
k_id == <<"i", "d">>
k_sdn_name == <<"s", "d", "n", "_", "n", "a", "m", "e">>
k_sdnname == <<"s", "d", "n", "n", "a", "m", "e">>
k_name == <<"n", "a", "m", "e">>
k_full_name == <<"f", "u", "l", "l", "_", "n", "a", "m", "e">>
k_sdn_type == <<"s", "d", "n", "_", "t", "y", "p", "e">>
k_sdntype == <<"s", "d", "n", "t", "y", "p", "e">>
k_type == <<"t", "y", "p", "e">>
k_program == <<"p", "r", "o", "g", "r", "a", "m">>
k_programs == <<"p", "r", "o", "g", "r", "a", "m", "s">>
k_sanctions_program == <<"s", "a", "n", "c", "t", "i", "o", "n", "s", "_", "p", "r", "o", "g", "r", "a", "m">>
k_remarks == <<"r", "e", "m", "a", "r", "k", "s">>
k_comment == <<"c", "o", "m", "m", "e", "n", "t">>
k_comments == <<"c", "o", "m", "m", "e", "n", "t", "s">>
k_alt_name == <<"a", "l", "t", "_", "n", "a", "m", "e">>
k_altname == <<"a", "l", "t", "n", "a", "m", "e">>
k_alternate_name == <<"a", "l", "t", "e", "r", "n", "a", "t", "e", "_", "n", "a", "m", "e">>
k_address == <<"a", "d", "d", "r", "e", "s", "s">>
k_addr == <<"a", "d", "d", "r">>
k_street == <<"s", "t", "r", "e", "e", "t">>
k_city == <<"c", "i", "t", "y">>
k_city_name == <<"c", "i", "t", "y", "_", "n", "a", "m", "e">>
k_country == <<"c", "o", "u", "n", "t", "r", "y">>
k_country_name == <<"c", "o", "u", "n", "t", "r", "y", "_", "n", "a", "m", "e">>
UID_KEYS == <<k_ent_num, k_entnum, k_uid, k_id>>
NAME_KEYS == <<k_sdn_name, k_sdnname, k_name, k_full_name>>
TYPE_KEYS == <<k_sdn_type, k_sdntype, k_type>>
PROGRAM_KEYS == <<k_program, k_programs, k_sanctions_program>>
REMARKS_KEYS == <<k_remarks, k_comment, k_comments>>
ALT_NAME_KEYS == <<k_alt_name, k_altname, k_name, k_alternate_name>>
ADDRESS_KEYS == <<k_address, k_addr, k_street>>
CITY_KEYS == <<k_city, k_city_name>>
COUNTRY_KEYS == <<k_country, k_country_name>>

-----------------------------------------------------------------------------
(* ofac-parser.ts *)

UpperCase == <<"A", "B", "C", "D", "E", "F", "G", "H", "I", "J", "K", "L", "M",
               "N", "O", "P", "Q", "R", "S", "T", "U", "V", "W", "X", "Y", "Z">>
LowerCase == <<"a", "b", "c", "d", "e", "f", "g", "h", "i", "j", "k", "l", "m",
               "n", "o", "p", "q", "r", "s", "t", "u", "v", "w", "x", "y", "z">>
Digits == {"0", "1", "2", "3", "4", "5", "6", "7", "8", "9"}

toLowerCaseChar(c) ==
    IF \E i \in 1..26 : UpperCase[i] = c
    THEN LowerCase[CHOOSE i \in 1..26 : UpperCase[i] = c]
    ELSE c

toLowerCase(s) == [i \in 1..Len(s) |-> toLowerCaseChar(s[i])]

\* \w and \s of a JavaScript regular expression (\s matches U+FEFF)
IsWord(c) ==
    \/ \E i \in 1..26 : c = UpperCase[i] \/ c = LowerCase[i]
    \/ c \in Digits
    \/ c = "_"
IsSpace(c) == c \in WhiteSpace

IsNotBom(c) == c # BOM
IsWordSpaceHyphen(c) == IsWord(c) \/ IsSpace(c) \/ c = "-"
IsHyphenSpace(c) == c = "-" \/ IsSpace(c)

RECURSIVE skipHyphenSpace(_)
skipHyphenSpace(s) ==
    IF s # <<>> /\ IsHyphenSpace(Head(s)) THEN skipHyphenSpace(Tail(s)) ELSE s

\* .replace(/[-\s]+/g, "_")
RECURSIVE replaceHyphenSpaceRuns(_)
replaceHyphenSpaceRuns(s) ==
    IF s = <<>> THEN <<>>
    ELSE IF IsHyphenSpace(Head(s))
         THEN <<"_">> \o replaceHyphenSpaceRuns(skipHyphenSpace(s))
         ELSE <<Head(s)>> \o replaceHyphenSpaceRuns(Tail(s))

\* normalizeHeader without its last replace
normalizeHeaderWithoutUnderscores(header) ==
    SelectSeq(SelectSeq(toLowerCase(trim(header)), IsNotBom), IsWordSpaceHyphen)

normalizeHeader(header) ==
    replaceHyphenSpaceRuns(
        SelectSeq(SelectSeq(toLowerCase(trim(header)), IsNotBom), IsWordSpaceHyphen))

\* ofac-update.ts, the normalizeHeader written out in that file
IsWordSpace(c) == IsWord(c) \/ IsSpace(c)

RECURSIVE skipSpace(_)
skipSpace(s) ==
    IF s # <<>> /\ IsSpace(Head(s)) THEN skipSpace(Tail(s)) ELSE s

\* .replace(/\s+/g, "_")
RECURSIVE replaceSpaceRuns(_)
replaceSpaceRuns(s) ==
    IF s = <<>> THEN <<>>
    ELSE IF IsSpace(Head(s))
         THEN <<"_">> \o replaceSpaceRuns(skipSpace(s))
         ELSE <<Head(s)>> \o replaceSpaceRuns(Tail(s))

normalizeHeaderInlined(header) ==
    replaceSpaceRuns(
        SelectSeq(SelectSeq(toLowerCase(trim(header)), IsNotBom), IsWordSpace))

\* A CSV text is its header line, its records and whether its quoting is
\* closed: csv-parse throws on an unclosed quote.  With the options of
\* parseCSV a record gives one row keyed by the normalized headers, cells
\* trimmed, a short record leaving its missing columns out, and an empty
\* line giving no row.
csvRow(header, record) ==
    LET n == IF Len(record) < Len(header) THEN Len(record) ELSE Len(header)
        keyAt == [i \in 1..n |-> normalizeHeader(header[i])]
    IN  [k \in {keyAt[i] : i \in 1..n} |->
            trim(record[CHOOSE i \in 1..n :
                            keyAt[i] = k /\ \A j \in (i + 1)..n : keyAt[j] # k])]

IsRecord(record) == record # <<>>

parseCSV(csvText) ==
    IF ~csvText.closed
    THEN [ok |-> FALSE, rows |-> <<>>]
    ELSE LET recs == SelectSeq(csvText.records, IsRecord)
         IN  [ok |-> TRUE,
              rows |-> [i \in 1..Len(recs) |-> csvRow(csvText.header, recs[i])]]

\* firstDefined without its test of the trimmed value
RECURSIVE firstDefinedWithoutTrimTest(_, _)
firstDefinedWithoutTrimTest(row, keys) ==
    IF keys = <<>> THEN Undef
    ELSE LET v == Get(row, Head(keys))
         IN  IF v # Undef /\ v # Null
             THEN String(v)
             ELSE firstDefinedWithoutTrimTest(row, Tail(keys))

RECURSIVE firstDefined(_, _)
firstDefined(row, keys) ==
    IF keys = <<>> THEN Undef
    ELSE LET v == Get(row, Head(keys))
         IN  IF v # Undef /\ v # Null /\ trim(String(v)) # <<>>
             THEN String(v)
             ELSE firstDefined(row, Tail(keys))

\* s.split(/[,;]+/): the pieces between maximal runs of commas and semicolons
Delims == {",", ";"}

RECURSIVE skipDelims(_)
skipDelims(s) ==
    IF s # <<>> /\ Head(s) \in Delims THEN skipDelims(Tail(s)) ELSE s

RECURSIVE split(_)
split(s) ==
    IF \A i \in 1..Len(s) : s[i] \notin Delims THEN <<s>>
    ELSE LET i == CHOOSE j \in 1..Len(s) :
                      s[j] \in Delims /\ \A h \in 1..(j - 1) : s[h] \notin Delims
         IN  <<SubSeq(s, 1, i - 1)>> \o split(skipDelims(SubSeq(s, i, Len(s))))

\* the split and the trim without .filter(Boolean)
splitProgramsUnfiltered(programRaw) ==
    LET parts == split(String(programRaw))
    IN  [i \in 1..Len(parts) |-> trim(parts[i])]

\* .split(/[,;]+/).map((s) => s.trim()).filter(Boolean)
splitPrograms(programRaw) ==
    LET parts == split(String(programRaw))
        trimmed == [i \in 1..Len(parts) |-> trim(parts[i])]
    IN  SelectSeq(trimmed, LAMBDA t : t # <<>>)

\* extractRow with the test `!uid || !name` cut down to `!uid`
extractRowWithoutNameTest(row) ==
    LET uid == firstDefined(row, UID_KEYS)
        name == firstDefined(row, NAME_KEYS)
    IN  IF ~Truthy(uid) THEN <<>>
        ELSE << [ uid |-> String(uid),
                  name |-> String(name),
                  type |-> Undef,
                  programs |-> <<>>,
                  remarks |-> Undef,
                  aka |-> <<>>,
                  addresses |-> <<>> ] >>

\* the callback of rows.map: <<>> for "return null", else the one entity
extractRow(row) ==
    LET uid == firstDefined(row, UID_KEYS)
        name == firstDefined(row, NAME_KEYS)
    IN  IF ~Truthy(uid) \/ ~Truthy(name) THEN <<>>
        ELSE LET type == firstDefined(row, TYPE_KEYS)
                 found == firstDefined(row, PROGRAM_KEYS)
                 programRaw == IF Truthy(found) THEN found ELSE <<>>
                 remarks == firstDefined(row, REMARKS_KEYS)
             IN  << [ uid |-> String(uid),
                      name |-> String(name),
                      type |-> IF Truthy(type) THEN String(type) ELSE Undef,
                      programs |-> IF Truthy(programRaw)
                                   THEN splitPrograms(programRaw)
                                   ELSE <<>>,
                      remarks |-> IF Truthy(remarks) THEN String(remarks) ELSE Undef,
                      aka |-> <<>>,
                      addresses |-> <<>> ] >>

\* rows.map(...).filter(Boolean)
RECURSIVE extractEntities(_)
extractEntities(rows) ==
    IF rows = <<>> THEN <<>>
    ELSE extractRow(Head(rows)) \o extractEntities(Tail(rows))

\* a map that keeps the first entity set under a uid
entityMapFirstWins(ents) ==
    [u \in {ents[i].uid : i \in 1..Len(ents)} |->
        CHOOSE i \in 1..Len(ents) :
            ents[i].uid = u /\ \A j \in 1..(i - 1) : ents[j].uid # u]

\* new Map(); entities.forEach(e => entityMap.set(e.uid, e)): a later entity
\* replaces an earlier one under the same uid.  The map holds the entity
\* objects themselves, here their positions in the array.
entityMap(ents) ==
    [u \in {ents[i].uid : i \in 1..Len(ents)} |->
        CHOOSE i \in 1..Len(ents) :
            ents[i].uid = u /\ \A j \in (i + 1)..Len(ents) : ents[j].uid # u]

\* altRow with the test `!uid || !altName` cut down to `!uid`
altRowWithoutNameTest(st, map, row) ==
    LET uid == firstDefined(row, UID_KEYS)
        altName == firstDefined(row, ALT_NAME_KEYS)
    IN  IF ~Truthy(uid)
        THEN [st EXCEPT !.skippedCount = @ + 1]
        ELSE IF String(uid) \in DOMAIN map
             THEN [st EXCEPT !.entities[map[String(uid)]].aka = Append(@, String(altName)),
                             !.mergedCount = @ + 1]
             ELSE st

\* one call of the altRows.forEach callback
altRow(st, map, row) ==
    LET uid == firstDefined(row, UID_KEYS)
        altName == firstDefined(row, ALT_NAME_KEYS)
    IN  IF ~Truthy(uid) \/ ~Truthy(altName)
        THEN [st EXCEPT !.skippedCount = @ + 1]
        ELSE IF String(uid) \in DOMAIN map
             THEN [st EXCEPT !.entities[map[String(uid)]].aka = Append(@, String(altName)),
                             !.mergedCount = @ + 1]
             ELSE st

RECURSIVE altForEach(_, _, _)
altForEach(st, map, rows) ==
    IF rows = <<>> THEN st
    ELSE altForEach(altRow(st, map, Head(rows)), map, Tail(rows))

altRun(ents, rows) ==
    altForEach([entities |-> ents, mergedCount |-> 0, skippedCount |-> 0],
               entityMap(ents), rows)

\* the alias pass returning the values of its uid map instead of the array
consolidateAltDataFromMap(ents, rows) ==
    LET res == altRun(ents, rows).entities
        map == entityMap(ents)
        IsFirst(i) == \A j \in 1..(i - 1) : ents[j].uid # ents[i].uid
        firsts == SelectSeq([i \in 1..Len(ents) |-> i], IsFirst)
    IN  [k \in 1..Len(firsts) |-> res[map[ents[firsts[k]].uid]]]

consolidateAltData(ents, rows) == altRun(ents, rows).entities

\* the address callback without its test for at least one field
addRowWithoutFieldTest(st, map, row) ==
    LET uid == firstDefined(row, UID_KEYS)
    IN  IF ~Truthy(uid)
        THEN [st EXCEPT !.skippedCount = @ + 1]
        ELSE IF String(uid) \in DOMAIN map
             THEN LET address == firstDefined(row, ADDRESS_KEYS)
                      city == firstDefined(row, CITY_KEYS)
                      country == firstDefined(row, COUNTRY_KEYS)
                  IN  [st EXCEPT
                          !.entities[map[String(uid)]].addresses =
                              Append(@, [ address |-> IF Truthy(address)
                                                      THEN String(address) ELSE Undef,
                                          city |-> IF Truthy(city)
                                                   THEN String(city) ELSE Undef,
                                          country |-> IF Truthy(country)
                                                      THEN String(country) ELSE Undef ]),
                          !.mergedCount = @ + 1]
             ELSE st

\* one call of the addRows.forEach callback
addRow(st, map, row) ==
    LET uid == firstDefined(row, UID_KEYS)
    IN  IF ~Truthy(uid)
        THEN [st EXCEPT !.skippedCount = @ + 1]
        ELSE IF String(uid) \in DOMAIN map
             THEN LET address == firstDefined(row, ADDRESS_KEYS)
                      city == firstDefined(row, CITY_KEYS)
                      country == firstDefined(row, COUNTRY_KEYS)
                  IN  IF Truthy(address) \/ Truthy(city) \/ Truthy(country)
                      THEN [st EXCEPT
                              !.entities[map[String(uid)]].addresses =
                                  Append(@, [ address |-> IF Truthy(address)
                                                          THEN String(address) ELSE Undef,
                                              city |-> IF Truthy(city)
                                                       THEN String(city) ELSE Undef,
                                              country |-> IF Truthy(country)
                                                          THEN String(country) ELSE Undef ]),
                              !.mergedCount = @ + 1]
                      ELSE st
             ELSE st

RECURSIVE addForEach(_, _, _)
addForEach(st, map, rows) ==
    IF rows = <<>> THEN st
    ELSE addForEach(addRow(st, map, Head(rows)), map, Tail(rows))

addRun(ents, rows) ==
    addForEach([entities |-> ents, mergedCount |-> 0, skippedCount |-> 0],
               entityMap(ents), rows)

consolidateAddData(ents, rows) == addRun(ents, rows).entities

-----------------------------------------------------------------------------
(* JSON.stringify(entities): an object is the sequence of its <<key, value>>  *)
(* members in insertion order; a member whose value is undefined is left out. *)

member(key, v) == IF v = Undef THEN <<>> ELSE << <<key, v>> >>

\* the value of an own property, undefined when the object has no such key
Own(o, key) == IF key \in DOMAIN o THEN o[key] ELSE Undef

stringifyAddress(a) ==
    member("address", Own(a, "address")) \o member("city", Own(a, "city"))
    \o member("country", Own(a, "country"))

stringifyEntity(e) ==
    << <<"uid", e.uid>>, <<"name", e.name>> >>
    \o member("type", Own(e, "type"))
    \o << <<"programs", e.programs>> >>
    \o member("remarks", Own(e, "remarks"))
    \o << <<"aka", e.aka>>,
          <<"addresses", [i \in 1..Len(e.addresses) |-> stringifyAddress(e.addresses[i])]>> >>

stringify(ents) == [i \in 1..Len(ents) |-> stringifyEntity(ents[i])]

-----------------------------------------------------------------------------
(* Inputs of the row pipeline *)

MaxRows == 4      \* rows over the three tables together
MaxPasses == 2    \* alias+address passes over one entity array

Row2(k1, v1, k2, v2) == (k1 :> v1) @@ (k2 :> v2)

SdnRowSet ==
    { Row2(k_ent_num, <<"1">>, k_sdn_name, <<"A">>),
      (k_ent_num :> <<"2">>) @@ (k_sdn_name :> <<"B">>) @@ (k_sdn_type :> <<"t">>)
          @@ (k_program :> <<"X", ";", " ", "Y">>) @@ (k_remarks :> <<" ">>),
      (k_ent_num :> <<" ">>) @@ (k_uid :> <<"1">>) @@ (k_name :> <<"C">>),
      Row2(k_ent_num, <<"1">>, k_sdn_name, Null),
      (k_sdn_name :> <<"A">>) }

AltRowSet ==
    { Row2(k_ent_num, <<"1">>, k_alt_name, <<"X">>),
      Row2(k_uid, <<"2">>, k_name, <<"Y">>),
      Row2(k_ent_num, <<"3">>, k_alt_name, <<"X">>),
      Row2(k_ent_num, <<"1">>, k_alt_name, <<" ">>),
      (k_alt_name :> <<"X">>) }

AddRowSet ==
    { (k_ent_num :> <<"1">>) @@ (k_address :> <<"S">>) @@ (k_city :> <<"C">>),
      Row2(k_ent_num, <<"2">>, k_country_name, <<"U">>),
      (k_ent_num :> <<"1">>) @@ (k_address :> <<" ">>) @@ (k_city :> Null),
      Row2(k_ent_num, <<"3">>, k_city, <<"C">>),
      (k_city :> <<"C">>) }

-----------------------------------------------------------------------------
(* The row pipeline: extractEntities, then consolidateAltData and           *)
(* consolidateAddData over the same array, once per pass.                    *)

PipeInit ==
    /\ \E n1, n2, n3 \in 0..MaxRows :
          /\ n1 + n2 + n3 <= MaxRows
          /\ sdnRows \in [1..n1 -> SdnRowSet]
          /\ altRows \in [1..n2 -> AltRowSet]
          /\ addRows \in [1..n3 -> AddRowSet]
    /\ entities = <<>>
    /\ before = <<>>
    /\ once = <<>>
    /\ stage = "rows"
    /\ passes = 0

Extract ==
    /\ stage = "rows"
    /\ entities' = extractEntities(sdnRows)
    /\ stage' = "extracted"
    /\ UNCHANGED <<sdnRows, altRows, addRows, before, once, passes>>
    /\ UNCHANGED <<svcVars, fnVars, readVars>>

ConsolidateAlt ==
    /\ stage \in {"extracted", "add"}
    /\ passes < MaxPasses
    /\ before' = entities
    /\ entities' = consolidateAltData(entities, altRows)
    /\ stage' = "alt"
    /\ UNCHANGED <<sdnRows, altRows, addRows, once, passes>>
    /\ UNCHANGED <<svcVars, fnVars, readVars>>

ConsolidateAdd ==
    /\ stage = "alt"
    /\ before' = entities
    /\ entities' = consolidateAddData(entities, addRows)
    /\ stage' = "add"
    /\ passes' = passes + 1
    /\ once' = IF passes = 0 THEN entities' ELSE once
    /\ UNCHANGED <<sdnRows, altRows, addRows>>
    /\ UNCHANGED <<svcVars, fnVars, readVars>>

PipeNext == Extract \/ ConsolidateAlt \/ ConsolidateAdd

-----------------------------------------------------------------------------
(* The service: update invocations, the blob store, the search reader *)

MaxStarts == 2        \* update invocations started in one behaviour
TickMinutes == 6      \* what one step of the clock adds
MaxNow == 12          \* the clock stops here

\* the update invocations that can be in flight together
Runs == {"u1", "u2"}

SdnCsvSet ==
    { [ header |-> << <<"E", "n", "t", " ", "N", "u", "m">>,
                      <<"S", "D", "N", " ", "N", "a", "m", "e">> >>,
        records |-> << << <<"1">>, <<"A">> >> >>,
        closed |-> TRUE ],
      [ header |-> << <<"e", "n", "t", "_", "n", "u", "m">>,
                      <<"S", "D", "N", "-", "N", "a", "m", "e">> >>,
        records |-> << << <<"1">>, <<"B">> >>, << <<"2">> >>, << <<"2">>, <<" ", "C">> >> >>,
        closed |-> TRUE ],
      [ header |-> << <<"e", "n", "t", "_", "n", "u", "m">> >>,
        records |-> <<>>,
        closed |-> FALSE ] }

AltCsvSet ==
    { [ header |-> << <<"e", "n", "t", "_", "n", "u", "m">>,
                      <<"a", "l", "t", "_", "n", "a", "m", "e">> >>,
        records |-> << << <<"1">>, <<"X">> >> >>,
        closed |-> TRUE ] }

AddCsvSet ==
    { [ header |-> << <<"E", "n", "t", "_", "N", "u", "m">>,
                      <<"C", "i", "t", "y">> >>,
        records |-> << << <<"1">>, <<"M">> >> >>,
        closed |-> TRUE ] }

\* what the three URLs serve
PlainFeeds == [sdn |-> SdnCsvSet, alt |-> AltCsvSet, add |-> AddCsvSet]

\* a table of a header line and no record
HeaderOnly(csvText) == [csvText EXCEPT !.records = <<>>, !.closed = TRUE]

\* the same, and the alias table also served with its header line alone
FeedsWithEmptyTables ==
    [ sdn |-> SdnCsvSet,
      alt |-> AltCsvSet \cup {HeaderOnly(t) : t \in AltCsvSet},
      add |-> AddCsvSet ]

NoCsv == [header |-> <<>>, records |-> <<>>, closed |-> TRUE]

sdnUrl == "SDN.CSV"
altUrl == "ALT.CSV"
addUrl == "ADD.CSV"

\* crypto.createHash("sha256").update(text).digest("hex"): a function of the text
sha256(text) == <<"sha256", text>>

\* zlib.gzipSync(Buffer.from(json, "utf8")) and its inverse
gzipSync(json) == [gzip |-> json]
gunzipSync(gz) == gz.gzip

\* JSON.parse of a stringified object: the members become its fields
parseMembers(members) ==
    [k \in {members[i][1] : i \in 1..Len(members)} |->
        members[CHOOSE i \in 1..Len(members) : members[i][1] = k][2]]

parseEntity(members) ==
    LET e == parseMembers(members)
    IN  [e EXCEPT !["addresses"] = [i \in 1..Len(@) |-> parseMembers(@[i])]]

parse(json) == [i \in 1..Len(json) |-> parseEntity(json[i])]

IdleRun ==
    [ pc |-> "idle", fetchedAt |-> 0,
      sdnCsv |-> NoCsv, altCsv |-> NoCsv, addCsv |-> NoCsv,
      sdnRows |-> <<>>, altRows |-> <<>>, addRows |-> <<>>, entities |-> <<>>,
      payloadGz |-> <<>>, meta |-> <<>>,
      response |-> <<>>, failedAt |-> "none", written |-> {} ]

\* qParam and limitParam are the parameters of the last request; readAt is
\* history: when the store was read
IdleReq ==
    [ pc |-> "idle", q |-> <<>>, qParam |-> Null, limitParam |-> Null, limit |-> <<>>,
      gz |-> <<>>, readAt |-> 0, response |-> <<>> ]

\* uid is the uid parameter of the last request; read and readAt are
\* history: whether the request read the store, and when
\* meta is the value store.get resolved with
IdleMreq == [pc |-> "idle", meta |-> <<>>, response |-> <<>>]

\* the q parameters of the clients of the update service: none, "A" and "X"
PlainQueries == {<<>>, <<"A">>, <<"X">>}

IdleEreq ==
    [ pc |-> "idle", uid |-> Undef, gz |-> <<>>, readAt |-> 0, read |-> FALSE,
      response |-> <<>>, error |-> "" ]

SvcInit ==
    /\ store = [dataset |-> <<>>, meta |-> <<>>]
    /\ run = [r \in Runs |-> IdleRun]
    /\ starts = 0
    /\ now = 0
    /\ cached = <<>>
    /\ req = IdleReq
    /\ persisted = {}
    /\ cachedEntities = <<>>
    /\ ereq = IdleEreq
    /\ limits = {Null}
    /\ queries = PlainQueries
    /\ mreq = IdleMreq
    /\ req2 = IdleReq

\* the handler has returned: its locals are gone, its response stays
Returned(l, pc, step, response) ==
    [IdleRun EXCEPT !.pc = pc, !.failedAt = step, !.written = l.written,
                    !.response = <<response>>]

\* Catch without the try/catch: the error leaves the handler, no response
CatchRethrows(r, step) ==
    run' = [run EXCEPT ![r] = [IdleRun EXCEPT !.pc = "failed", !.failedAt = step,
                                              !.written = run[r].written]]

\* the catch block of the update handler: a 500 response, nothing rethrown
Catch(r, step) ==
    run' = [run EXCEPT ![r] = Returned(run[r], "failed", step,
                                       [status |-> 500, ok |-> FALSE])]

\* the scheduler or a caller invokes the update function
Start(r) ==
    /\ run[r].pc \in {"idle", "done", "failed"}
    /\ starts < MaxStarts
    /\ starts' = starts + 1
    /\ run' = [run EXCEPT ![r] = [IdleRun EXCEPT !.pc = "fetch_sdn", !.fetchedAt = now]]
    /\ UNCHANGED <<store, now, cached, req>>
    /\ UNCHANGED <<persisted, pipeVars, fnVars, readVars>>

\* await fetchText(sdnUrl): the body, or a throw on a network error or a
\* response that is not ok
FetchSdn(r) ==
    /\ run[r].pc = "fetch_sdn"
    /\ \/ \E text \in feeds.sdn :
             run' = [run EXCEPT ![r].sdnCsv = text, ![r].pc = "fetch_alt"]
       \/ Catch(r, "fetch_sdn")
    /\ UNCHANGED <<store, starts, now, cached, req>>
    /\ UNCHANGED <<persisted, pipeVars, fnVars, readVars>>

FetchAlt(r) ==
    /\ run[r].pc = "fetch_alt"
    /\ \/ \E text \in feeds.alt :
             run' = [run EXCEPT ![r].altCsv = text, ![r].pc = "fetch_add"]
       \/ Catch(r, "fetch_alt")
    /\ UNCHANGED <<store, starts, now, cached, req>>
    /\ UNCHANGED <<persisted, pipeVars, fnVars, readVars>>

FetchAdd(r) ==
    /\ run[r].pc = "fetch_add"
    /\ \/ \E text \in feeds.add :
             run' = [run EXCEPT ![r].addCsv = text, ![r].pc = "parse"]
       \/ Catch(r, "fetch_add")
    /\ UNCHANGED <<store, starts, now, cached, req>>
    /\ UNCHANGED <<persisted, pipeVars, fnVars, readVars>>

\* the three awaited parseCSV calls; they touch nothing shared
ParseTables(r) ==
    /\ run[r].pc = "parse"
    /\ LET sdn == parseCSV(run[r].sdnCsv)
           alt == parseCSV(run[r].altCsv)
           add == parseCSV(run[r].addCsv)
       IN  IF sdn.ok /\ alt.ok /\ add.ok
           THEN run' = [run EXCEPT ![r].sdnRows = sdn.rows,
                                   ![r].altRows = alt.rows,
                                   ![r].addRows = add.rows,
                                   ![r].pc = "build"]
           ELSE Catch(r, "parse")
    /\ UNCHANGED <<store, starts, now, cached, req>>
    /\ UNCHANGED <<persisted, pipeVars, fnVars, readVars>>

\* the sample row taken from the end of the table
lastRow(rows) == IF rows = <<>> THEN <<>> ELSE <<rows[Len(rows)]>>

\* rows[0] || null, and Object.keys(rows[0] || {})
firstRow(rows) == IF rows = <<>> THEN <<>> ELSE <<Head(rows)>>
headersOf(rows) == IF rows = <<>> THEN {} ELSE DOMAIN Head(rows)

\* the response of the debug=1 branch
debugResponse(l) ==
    [ status |-> 200, ok |-> TRUE,
      sdnHeaders |-> headersOf(l.sdnRows),
      altHeaders |-> headersOf(l.altRows),
      addHeaders |-> headersOf(l.addRows),
      sdnSampleRow |-> firstRow(l.sdnRows),
      altSampleRow |-> firstRow(l.altRows),
      addSampleRow |-> firstRow(l.addRows),
      rowCounts |-> [sdn |-> Len(l.sdnRows), alt |-> Len(l.altRows), add |-> Len(l.addRows)] ]

\* extractEntities, consolidateAltData, consolidateAddData over the run's rows
runEntities(l) ==
    consolidateAddData(consolidateAltData(extractEntities(l.sdnRows), l.altRows),
                       l.addRows)

\* runPayload taken before the address consolidation
runPayloadBeforeAddresses(l) ==
    gzipSync(stringify(consolidateAltData(extractEntities(l.sdnRows), l.altRows)))

\* JSON.stringify and gzipSync of the run's entities
runPayload(l) == gzipSync(stringify(runEntities(l)))

\* runMeta counting the SDN rows as entities
runMetaCountsRows(l) ==
    [ lists |-> <<"SDN", "ALT", "ADD">>,
      source |-> [sdnUrl |-> sdnUrl, altUrl |-> altUrl, addUrl |-> addUrl],
      fetchedAt |-> l.fetchedAt,
      counts |-> [ sdnRows |-> Len(l.sdnRows), altRows |-> Len(l.altRows),
                   addRows |-> Len(l.addRows), entities |-> Len(l.sdnRows) ],
      hashes |-> [ sdnSha256 |-> sha256(l.sdnCsv), altSha256 |-> sha256(l.altCsv),
                   addSha256 |-> sha256(l.addCsv) ] ]

runMeta(l) ==
    [ lists |-> <<"SDN", "ALT", "ADD">>,
      source |-> [sdnUrl |-> sdnUrl, altUrl |-> altUrl, addUrl |-> addUrl],
      fetchedAt |-> l.fetchedAt,
      counts |-> [ sdnRows |-> Len(l.sdnRows), altRows |-> Len(l.altRows),
                   addRows |-> Len(l.addRows), entities |-> Len(runEntities(l)) ],
      hashes |-> [ sdnSha256 |-> sha256(l.sdnCsv), altSha256 |-> sha256(l.altCsv),
                   addSha256 |-> sha256(l.addCsv) ] ]

\* from the debug test to the call of store.set, without an await in between
Build(r) ==
    /\ run[r].pc = "build"
    /\ \E debug \in BOOLEAN :
          IF debug
          THEN run' = [run EXCEPT ![r] = Returned(run[r], "done", "none",
                                                  debugResponse(run[r]))]
          ELSE run' = [run EXCEPT ![r].payloadGz = <<runPayload(run[r])>>,
                                  ![r].meta = <<runMeta(run[r])>>,
                                  ![r].pc = "write_dataset"]
    /\ UNCHANGED <<store, starts, now, cached, req>>
    /\ UNCHANGED <<persisted, pipeVars, fnVars, readVars>>

\* the dataset step writing the metadata record instead of the blob
WriteMetaFirst(r) ==
    /\ run[r].pc = "write_dataset"
    /\ \/ /\ store' = [store EXCEPT !.meta = run[r].meta]
          /\ run' = [run EXCEPT ![r].pc = "write_meta",
                                ![r].written = @ \cup {"meta.json"}]
       \/ /\ Catch(r, "write_dataset")
          /\ UNCHANGED store
    /\ UNCHANGED <<starts, now, cached, req>>
    /\ UNCHANGED <<persisted, pipeVars, fnVars, readVars>>

\* await store.set("dataset.json.gz", payloadGz): the blob is replaced whole,
\* or the call rejects and the blob stays
WriteDataset(r) ==
    /\ run[r].pc = "write_dataset"
    /\ \/ /\ store' = [store EXCEPT !.dataset = run[r].payloadGz]
          /\ run' = [run EXCEPT ![r].pc = "write_meta",
                                ![r].written = @ \cup {"dataset.json.gz"}]
          /\ persisted' = persisted \cup {<<run[r].sdnCsv, run[r].altCsv, run[r].addCsv>>}
       \/ /\ Catch(r, "write_dataset")
          /\ UNCHANGED <<store, persisted>>
    /\ UNCHANGED <<starts, now, cached, req>>
    /\ UNCHANGED <<pipeVars, fnVars, readVars>>

\* await store.setJSON("meta.json", meta), then the 200 response
WriteMeta(r) ==
    /\ run[r].pc = "write_meta"
    /\ \/ /\ store' = [store EXCEPT !.meta = run[r].meta]
          /\ run' = [run EXCEPT ![r] =
                        Returned([run[r] EXCEPT !.written = @ \cup {"meta.json"}],
                                 "done", "none",
                                 [status |-> 200, ok |-> TRUE, meta |-> run[r].meta[1]])]
       \/ /\ Catch(r, "write_meta")
          /\ UNCHANGED store
    /\ UNCHANGED <<starts, now, cached, req>>
    /\ UNCHANGED <<persisted, pipeVars, fnVars, readVars>>

Tick ==
    /\ now + TickMinutes <= MaxNow
    /\ now' = now + TickMinutes
    /\ UNCHANGED <<store, run, starts, cached, req>>
    /\ UNCHANGED <<persisted, pipeVars, fnVars, readVars>>

-----------------------------------------------------------------------------
(* ofac-search.ts *)

CacheMinutes == 10
DefaultLimit == 20
MaxLimit == 50

\* url.searchParams.get("q"): null when the parameter is missing
QuerySet == {Null, <<>>, <<" ">>, <<"A">>, <<"X">>}

\* numbers: an integer or NaN
Num(n) == [nan |-> FALSE, val |-> n]
NaN == [nan |-> TRUE, val |-> 0]

DigitSeq == <<"0", "1", "2", "3", "4", "5", "6", "7", "8", "9">>

digitValue(c) == (CHOOSE i \in 1..10 : DigitSeq[i] = c) - 1

RECURSIVE digitsValue(_)
digitsValue(s) ==
    IF s = <<>> THEN 0
    ELSE digitsValue(SubSeq(s, 1, Len(s) - 1)) * 10 + digitValue(s[Len(s)])

IsDigits(s) == s # <<>> /\ \A i \in 1..Len(s) : s[i] \in Digits

\* the decimal numeral of a natural number
RECURSIVE Decimal(_)
Decimal(n) ==
    IF n < 10 THEN <<DigitSeq[n + 1]>>
    ELSE Decimal(n \div 10) \o <<DigitSeq[(n % 10) + 1]>>

\* Number(s) of a string: blank is 0, a signed decimal integer is its value,
\* and the other strings of the limit universe are not numerals
Number(s) ==
    LET t == trim(s)
    IN  IF t = <<>> THEN Num(0)
        ELSE IF IsDigits(t) THEN Num(digitsValue(t))
        ELSE IF Head(t) = "-" /\ IsDigits(Tail(t)) THEN Num(0 - digitsValue(Tail(t)))
        ELSE IF Head(t) = "+" /\ IsDigits(Tail(t)) THEN Num(digitsValue(Tail(t)))
        ELSE NaN

\* Math.min(a, b) with b a number
mathMin(a, b) == IF a.nan THEN NaN ELSE IF a.val < b THEN a ELSE Num(b)

\* Math.min(Number(url.searchParams.get("limit") || "20"), 50)
limitOf(limitParam) ==
    mathMin(Number(IF Truthy(limitParam) THEN limitParam ELSE Decimal(DefaultLimit)),
            MaxLimit)

\* the cache test without its time limit
cacheNeverExpires == cached # <<>>

cacheFresh == cached # <<>> /\ now - cached[1].loadedAt < CacheMinutes

\* fuse.search(q, {limit}): the library is outside the repository; an entity
\* matches when q is its name or one of its aka, and the library cuts the
\* hits to the first limit ones when limit is a number above -1
Matches(e, q) == e.name = q \/ \E i \in 1..Len(e.aka) : e.aka[i] = q

fuseSearch(ents, q, limit) ==
    LET hits == SelectSeq(ents, LAMBDA e : Matches(e, q))
    IN  IF ~limit.nan /\ limit.val > -1 /\ limit.val < Len(hits)
        THEN SubSeq(hits, 1, limit.val)
        ELSE hits

resultItem(e) ==
    [ uid |-> e.uid, name |-> e.name,
      type |-> IF "type" \in DOMAIN e THEN e.type ELSE Undef,
      programs |-> e.programs ]

\* staleness is history: the minutes since the snapshot answering the
\* request was read from the store
searchResponse(ents, q, limit, readAt) ==
    LET hits == fuseSearch(ents, q, limit)
    IN  [ status |-> 200, ok |-> TRUE, q |-> q, count |-> Len(hits),
          results |-> [i \in 1..Len(hits) |-> resultItem(hits[i])],
          staleness |-> now - readAt ]

\* the query taken as it is sent
queryOfUntrimmed(param) == IF Truthy(param) THEN param ELSE <<>>

\* (url.searchParams.get("q") || "").trim()
queryOf(param) == trim(IF Truthy(param) THEN param ELSE <<>>)

\* the handler up to the await of store.get inside loadDataset: the request
\* answered at once, or waiting for the blob
searchBegun(param, limitParam) ==
    LET q == queryOf(param)
        limit == limitOf(limitParam)
    IN  IF q = <<>>
        THEN [IdleReq EXCEPT !.pc = "done", !.limitParam = limitParam,
                 !.qParam = param,
                 !.response = <<[status |-> 400, ok |-> FALSE,
                                 error |-> "Missing ?q="]>>]
        ELSE IF cacheFresh
             THEN [IdleReq EXCEPT !.pc = "done", !.limitParam = limitParam,
                      !.qParam = param,
                      !.response =
                          <<searchResponse(cached[1].entities, q, limit,
                                           cached[1].readAt)>>]
             ELSE [IdleReq EXCEPT !.pc = "get", !.q = q, !.qParam = param,
                      !.limitParam = limitParam, !.limit = limit,
                      !.gz = store.dataset, !.readAt = now]

\* loadDataset after store.get, and the rest of the handler: the request
\* and the cache it leaves
searchFinished(rq) ==
    IF rq.gz = <<>>
    THEN [ req |-> [IdleReq EXCEPT !.pc = "failed", !.limitParam = rq.limitParam,
                                   !.qParam = rq.qParam],
           cached |-> cached ]
    ELSE LET ents == parse(gunzipSync(rq.gz[1]))
         IN  [ req |-> [IdleReq EXCEPT !.pc = "done", !.limitParam = rq.limitParam,
                           !.qParam = rq.qParam,
                           !.response =
                               <<searchResponse(ents, rq.q, rq.limit, rq.readAt)>>],
               cached |-> <<[loadedAt |-> now, entities |-> ents,
                             readAt |-> rq.readAt]>> ]

\* a search request arrives
SearchBegin ==
    /\ req.pc \in {"idle", "done", "failed"}
    /\ \E param \in queries, limitParam \in limits :
          req' = searchBegun(param, limitParam)
    /\ UNCHANGED <<store, run, starts, now, cached>>
    /\ UNCHANGED <<persisted, pipeVars, fnVars, readVars>>

\* its store.get has resolved
SearchFinish ==
    /\ req.pc = "get"
    /\ req' = searchFinished(req).req
    /\ cached' = searchFinished(req).cached
    /\ UNCHANGED <<store, run, starts, now>>
    /\ UNCHANGED <<persisted, pipeVars, fnVars, readVars>>

\* a second search request arrives in the same process
SearchBegin2 ==
    /\ req2.pc \in {"idle", "done", "failed"}
    /\ \E param \in queries, limitParam \in limits :
          req2' = searchBegun(param, limitParam)
    /\ UNCHANGED <<store, run, starts, now, cached, req>>
    /\ UNCHANGED <<persisted, pipeVars, fnVars>>
    /\ UNCHANGED <<cachedEntities, ereq, limits, queries, mreq, feeds>>

\* its store.get has resolved
SearchFinish2 ==
    /\ req2.pc = "get"
    /\ req2' = searchFinished(req2).req
    /\ cached' = searchFinished(req2).cached
    /\ UNCHANGED <<store, run, starts, now, req>>
    /\ UNCHANGED <<persisted, pipeVars, fnVars>>
    /\ UNCHANGED <<cachedEntities, ereq, limits, queries, mreq, feeds>>

-----------------------------------------------------------------------------
(* ofac-entity.ts *)

UidParams == {Undef, <<>>, <<"1">>, <<"2">>, <<"9">>}

\* loadById without the cache test
entityCacheNeverFresh == FALSE

\* cachedEntities && Date.now() - cachedEntities.loadedAt < 10 * 60 * 1000
entityCacheFresh ==
    cachedEntities # <<>> /\ now - cachedEntities[1].loadedAt < CacheMinutes

\* new Map(entities.map(e => [e.uid, e])): a later entry replaces an earlier
\* one with the same key
newMap(ents) ==
    [u \in {ents[i].uid : i \in 1..Len(ents)} |->
        ents[CHOOSE i \in 1..Len(ents) :
                /\ ents[i].uid = u
                /\ \A j \in (i + 1)..Len(ents) : ents[j].uid # u]]

\* the response carrying the fields of the search result item only
entityResponseProjected(byId, uid, readAt) ==
    IF uid \in DOMAIN byId
    THEN [ status |-> 200, ok |-> TRUE, entity |-> resultItem(byId[uid]),
           staleness |-> now - readAt ]
    ELSE [ status |-> 404, ok |-> FALSE, error |-> "Not found", uid |-> uid,
           staleness |-> now - readAt ]

\* byId.get(uid) and the response built from it
entityResponse(byId, uid, readAt) ==
    IF uid \in DOMAIN byId
    THEN [ status |-> 200, ok |-> TRUE, entity |-> byId[uid],
           staleness |-> now - readAt ]
    ELSE [ status |-> 404, ok |-> FALSE, error |-> "Not found", uid |-> uid,
           staleness |-> now - readAt ]

\* the handler up to the await of store.get inside loadById
EntityBegin ==
    /\ ereq.pc \in {"idle", "done", "failed"}
    /\ \E uid \in UidParams :
          IF ~Truthy(uid)
          THEN ereq' = [IdleEreq EXCEPT !.pc = "done", !.uid = uid,
                           !.response = <<[status |-> 400, ok |-> FALSE,
                                           error |-> "Missing :uid"]>>]
          ELSE IF entityCacheFresh
               THEN ereq' = [IdleEreq EXCEPT !.pc = "done", !.uid = uid,
                                !.response =
                                    <<entityResponse(cachedEntities[1].byId, uid,
                                                     cachedEntities[1].readAt)>>]
               ELSE ereq' = [IdleEreq EXCEPT !.pc = "get", !.uid = uid,
                                !.gz = store.dataset, !.readAt = now, !.read = TRUE]
    /\ UNCHANGED <<cachedEntities, limits, queries, mreq, req2, feeds>>
    /\ UNCHANGED <<pipeVars, svcVars, fnVars>>

\* loadById after store.get, and the rest of the handler
EntityFinish ==
    /\ ereq.pc = "get"
    /\ IF ereq.gz = <<>>
       THEN /\ ereq' = [IdleEreq EXCEPT !.pc = "failed", !.uid = ereq.uid,
                           !.read = TRUE, !.error = "No dataset yet."]
            /\ UNCHANGED cachedEntities
       ELSE LET ents == parse(gunzipSync(ereq.gz[1]))
                byId == newMap(ents)
            IN  /\ cachedEntities' = <<[loadedAt |-> now, byId |-> byId,
                                        entities |-> ents, readAt |-> ereq.readAt]>>
                /\ ereq' = [IdleEreq EXCEPT !.pc = "done", !.uid = ereq.uid,
                               !.read = TRUE,
                               !.response =
                                   <<entityResponse(byId, ereq.uid, ereq.readAt)>>]
    /\ UNCHANGED <<limits, queries, mreq, req2, feeds>>
    /\ UNCHANGED <<pipeVars, svcVars, fnVars>>

-----------------------------------------------------------------------------
(* The readers alone, over a store that already holds a dataset or none *)

MaxDataset == 51

\* a dataset of n entities named "A" with uids "1" .. n
ManyEntities(n) ==
    [i \in 1..n |->
        [ uid |-> Decimal(i), name |-> <<"A">>, type |-> Undef, programs |-> <<>>,
          remarks |-> Undef, aka |-> <<>>, addresses |-> <<>> ]]

\* two entities sharing uid "1", as extractEntities returns them for two
\* rows with ent_num "1", and one with uid "2"
SharedUidEntities ==
    << [ uid |-> <<"1">>, name |-> <<"A">>, type |-> Undef, programs |-> <<>>,
         remarks |-> Undef, aka |-> << <<"X">> >>, addresses |-> <<>> ],
       [ uid |-> <<"1">>, name |-> <<"C">>, type |-> <<"t">>, programs |-> << <<"X">> >>,
         remarks |-> <<"r">>, aka |-> <<>>,
         addresses |-> << [address |-> <<"S">>, city |-> Undef, country |-> Undef] >> ],
       [ uid |-> <<"2">>, name |-> <<"X">>, type |-> Undef, programs |-> <<>>,
         remarks |-> Undef, aka |-> << <<"A">> >>, addresses |-> <<>> ] >>

StoredDatasets ==
    { <<>>,
      <<gzipSync(stringify(SharedUidEntities))>>,
      <<gzipSync(stringify(ManyEntities(MaxDataset)))>> }

LimitSet == {Null, <<"1">>, <<"0">>, <<"-", "1">>, <<"6", "0">>, <<"x">>}

ReadInit ==
    /\ store \in [dataset : StoredDatasets, meta : {<<>>}]
    /\ run = [r \in Runs |-> IdleRun]
    /\ starts = 0
    /\ now = 0
    /\ cached = <<>>
    /\ req = IdleReq
    /\ persisted = {}
    /\ cachedEntities = <<>>
    /\ ereq = IdleEreq
    /\ limits = LimitSet
    /\ queries = QuerySet
    /\ mreq = IdleMreq
    /\ req2 = IdleReq

ReadNext ==
    \/ SearchBegin
    \/ SearchFinish
    \/ EntityBegin
    \/ EntityFinish
    \/ Tick

-----------------------------------------------------------------------------
(* ofac-meta: the metadata read handler *)

NoDatasetYet == "No dataset yet. Wait for schedule or call /api/update."

\* a handler that answers as the update handler does: the record inside an
\* envelope
metaResponseEnveloped(meta) ==
    IF meta = <<>>
    THEN [status |-> 404, ok |-> FALSE, error |-> NoDatasetYet]
    ELSE [status |-> 200, body |-> [ok |-> TRUE, meta |-> meta[1]]]

\* if (!meta) the 404 answer, else new Response(meta): the stored text is the
\* body, the status is the default 200
metaResponse(meta) ==
    IF meta = <<>>
    THEN [status |-> 404, ok |-> FALSE, error |-> NoDatasetYet]
    ELSE [status |-> 200, body |-> meta[1]]

\* a request arrives: await store.get("meta.json")
MetaBegin ==
    /\ mreq.pc \in {"idle", "done"}
    /\ mreq' = [IdleMreq EXCEPT !.pc = "get", !.meta = store.meta]
    /\ UNCHANGED <<cachedEntities, ereq, limits, queries, req2, feeds>>
    /\ UNCHANGED <<pipeVars, svcVars, fnVars>>

\* the get has resolved: the handler answers
MetaFinish ==
    /\ mreq.pc = "get"
    /\ mreq' = [mreq EXCEPT !.pc = "done", !.response = <<metaResponse(mreq.meta)>>]
    /\ UNCHANGED <<cachedEntities, ereq, limits, queries, req2, feeds>>
    /\ UNCHANGED <<pipeVars, svcVars, fnVars>>

-----------------------------------------------------------------------------
(* ofac-update.ts, statement by statement between the parse and the first   *)
(* store.set                                                                *)

\* the debug test, then let entities = extractEntities(sdnRows)
Extracting(r) ==
    /\ run[r].pc = "build"
    /\ \E debug \in BOOLEAN :
          IF debug
          THEN run' = [run EXCEPT ![r] = Returned(run[r], "done", "none",
                                                  debugResponse(run[r]))]
          ELSE run' = [run EXCEPT ![r].entities = extractEntities(run[r].sdnRows),
                                  ![r].pc = "consolidate_alt"]
    /\ UNCHANGED <<store, starts, now, cached, req>>
    /\ UNCHANGED <<persisted, pipeVars, fnVars, readVars>>

\* entities = consolidateAltData(entities, altRows)
ConsolidatingAliases(r) ==
    /\ run[r].pc = "consolidate_alt"
    /\ run' = [run EXCEPT ![r].entities = consolidateAltData(@, run[r].altRows),
                          ![r].pc = "consolidate_add"]
    /\ UNCHANGED <<store, starts, now, cached, req>>
    /\ UNCHANGED <<persisted, pipeVars, fnVars, readVars>>

\* entities = consolidateAddData(entities, addRows)
ConsolidatingAddresses(r) ==
    /\ run[r].pc = "consolidate_add"
    /\ run' = [run EXCEPT ![r].entities = consolidateAddData(@, run[r].addRows),
                          ![r].pc = "encode"]
    /\ UNCHANGED <<store, starts, now, cached, req>>
    /\ UNCHANGED <<persisted, pipeVars, fnVars, readVars>>

\* payloadJson, payloadGz and meta
Encoding(r) ==
    /\ run[r].pc = "encode"
    /\ run' = [run EXCEPT
                 ![r].payloadGz = <<gzipSync(stringify(run[r].entities))>>,
                 ![r].meta = <<[runMeta(run[r]) EXCEPT
                                  !.counts.entities = Len(run[r].entities)]>>,
                 ![r].pc = "write_dataset"]
    /\ UNCHANGED <<store, starts, now, cached, req>>
    /\ UNCHANGED <<persisted, pipeVars, fnVars, readVars>>

\* one update function at a time, as the schedule runs it, and the metadata
\* reader
SeqRuns == {"u1"}

SeqNext ==
    \/ \E r \in SeqRuns : Start(r)
    \/ \E r \in SeqRuns : FetchSdn(r)
    \/ \E r \in SeqRuns : FetchAlt(r)
    \/ \E r \in SeqRuns : FetchAdd(r)
    \/ \E r \in SeqRuns : ParseTables(r)
    \/ \E r \in SeqRuns : Extracting(r)
    \/ \E r \in SeqRuns : ConsolidatingAliases(r)
    \/ \E r \in SeqRuns : ConsolidatingAddresses(r)
    \/ \E r \in SeqRuns : Encoding(r)
    \/ \E r \in SeqRuns : WriteDataset(r)
    \/ \E r \in SeqRuns : WriteMeta(r)
    \/ Tick
    \/ MetaBegin
    \/ MetaFinish

\* one update function at a time and two search requests in one process
OverlapNext ==
    \/ \E r \in SeqRuns : Start(r)
    \/ \E r \in SeqRuns : FetchSdn(r)
    \/ \E r \in SeqRuns : FetchAlt(r)
    \/ \E r \in SeqRuns : FetchAdd(r)
    \/ \E r \in SeqRuns : ParseTables(r)
    \/ \E r \in SeqRuns : Build(r)
    \/ \E r \in SeqRuns : WriteDataset(r)
    \/ \E r \in SeqRuns : WriteMeta(r)
    \/ SearchBegin
    \/ SearchFinish
    \/ SearchBegin2
    \/ SearchFinish2

SvcNext ==
    \/ \E r \in Runs : Start(r)
    \/ \E r \in Runs : FetchSdn(r)
    \/ \E r \in Runs : FetchAlt(r)
    \/ \E r \in Runs : FetchAdd(r)
    \/ \E r \in Runs : ParseTables(r)
    \/ \E r \in Runs : Build(r)
    \/ \E r \in Runs : WriteDataset(r)
    \/ \E r \in Runs : WriteMeta(r)
    \/ Tick
    \/ SearchBegin
    \/ SearchFinish

-----------------------------------------------------------------------------
(* Calls of the pure functions: normalizeHeader of ofac-parser.ts, the       *)
(* normalizeHeader written out in ofac-update.ts, firstDefined, and the       *)
(* encoding of ofac-update.ts followed by the decoding of ofac-search.ts.     *)

MaxHeaderLen == 3
MaxEntities == 2

HeaderChars == {"D", "a", "1", "_", "-", " ", "(", BOM}

HeaderSet ==
    UNION {[1..n -> HeaderChars] : n \in 0..MaxHeaderLen}
    \cup { <<"S", "D", "N", "-", "T", "y", "p", "e">>,
           <<"P", "r", "o", "g", "r", "a", "m", "(", "s", ")">>,
           <<BOM, "E", "n", "t", " ", "N", "u", "m">> }

KeyLists ==
    { UID_KEYS, NAME_KEYS, TYPE_KEYS, PROGRAM_KEYS, REMARKS_KEYS,
      ALT_NAME_KEYS, ADDRESS_KEYS, CITY_KEYS, COUNTRY_KEYS }

\* entities as extractEntities builds them (optional fields present, maybe
\* undefined), as JSON.parse builds them (optional fields maybe absent), and
\* with null fields
EntitySet ==
    { [ uid |-> <<"1">>, name |-> <<"A">>, type |-> Undef, programs |-> <<>>,
        remarks |-> Undef, aka |-> <<>>, addresses |-> <<>> ],
      [ uid |-> <<"1">>, name |-> <<"A">>, programs |-> <<>>,
        aka |-> <<>>, addresses |-> << [address |-> <<"S">>] >> ],
      [ uid |-> <<"2">>, name |-> <<"B">>, type |-> Null, programs |-> << <<"X">> >>,
        remarks |-> Null, aka |-> << <<"Y">> >>,
        addresses |-> << [address |-> <<"S">>, city |-> Null, country |-> Undef] >> ],
      [ uid |-> <<"2">>, name |-> <<"B">>, type |-> <<"t">>,
        programs |-> << <<"X">>, <<"Y">> >>, remarks |-> <<"r">>,
        aka |-> << <<"Y">> >>,
        addresses |-> << [address |-> <<"S">>, city |-> <<"C">>, country |-> <<"U">>] >> ] }

\* program fields: every text of at most MaxProgramLen characters, under one
\* of the three keys, and a blank field in front of a later key
MaxProgramLen == 4
ProgramChars == {"X", "Y", " ", ",", ";"}
ProgramTexts == UNION {[1..n -> ProgramChars] : n \in 0..MaxProgramLen}

ProgramRowSet ==
    { Row2(k_ent_num, <<"1">>, k_sdn_name, <<"A">>) }
    \cup { Row2(k_ent_num, <<"1">>, k_sdn_name, <<"A">>) @@ (k :> t) :
              k \in {k_program, k_programs, k_sanctions_program}, t \in ProgramTexts }
    \cup { Row2(k_ent_num, <<"1">>, k_sdn_name, <<"A">>)
              @@ Row2(k_program, <<" ">>, k_sanctions_program, <<"Y", ";", "X">>) }

FnIdle == fnOp = "none" /\ fnArg = <<>> /\ fnOut = <<>>

FnInit ==
    /\ fnOut = <<>>
    /\ \/ fnOp \in {"normalizeHeader", "normalizeHeaderInlined"} /\ fnArg \in HeaderSet
       \/ /\ fnOp = "firstDefined"
          /\ \E row \in SdnRowSet \cup AltRowSet \cup AddRowSet, keys \in KeyLists :
                fnArg = <<row, keys>>
       \/ /\ fnOp = "roundTrip"
          /\ \E n \in 0..MaxEntities : fnArg \in [1..n -> EntitySet]
       \/ fnOp = "extractEntities" /\ fnArg \in ProgramRowSet

\* normalizeHeader(header), then normalizeHeader of what it returned
CallNormalizeHeader ==
    /\ fnOp = "normalizeHeader"
    /\ Len(fnOut) < 2
    /\ fnOut' = Append(fnOut, normalizeHeader(IF fnOut = <<>> THEN fnArg ELSE fnOut[1]))
    /\ UNCHANGED <<fnOp, fnArg, pipeVars, svcVars, readVars>>

CallNormalizeHeaderInlined ==
    /\ fnOp = "normalizeHeaderInlined"
    /\ fnOut = <<>>
    /\ fnOut' = <<normalizeHeaderInlined(fnArg)>>
    /\ UNCHANGED <<fnOp, fnArg, pipeVars, svcVars, readVars>>

CallFirstDefined ==
    /\ fnOp = "firstDefined"
    /\ fnOut = <<>>
    /\ fnOut' = <<firstDefined(fnArg[1], fnArg[2])>>
    /\ UNCHANGED <<fnOp, fnArg, pipeVars, svcVars, readVars>>

\* zlib.gzipSync(Buffer.from(JSON.stringify(entities), "utf8"))
Encode ==
    /\ fnOp = "roundTrip"
    /\ fnOut = <<>>
    /\ fnOut' = <<gzipSync(stringify(fnArg))>>
    /\ UNCHANGED <<fnOp, fnArg, pipeVars, svcVars, readVars>>

\* JSON.parse(zlib.gunzipSync(gz).toString("utf8"))
Decode ==
    /\ fnOp = "roundTrip"
    /\ Len(fnOut) = 1
    /\ fnOut' = Append(fnOut, parse(gunzipSync(fnOut[1])))
    /\ UNCHANGED <<fnOp, fnArg, pipeVars, svcVars, readVars>>

\* extractEntities(rows) of one row
CallExtractEntities ==
    /\ fnOp = "extractEntities"
    /\ fnOut = <<>>
    /\ fnOut' = <<extractEntities(<<fnArg>>)>>
    /\ UNCHANGED <<fnOp, fnArg, pipeVars, svcVars, readVars>>

FnNext ==
    \/ CallExtractEntities
    \/ CallNormalizeHeader
    \/ CallNormalizeHeaderInlined
    \/ CallFirstDefined
    \/ Encode
    \/ Decode

-----------------------------------------------------------------------------
(* Specifications *)

\* the row pipeline alone, over every bounded choice of rows
InitPipe == PipeInit /\ SvcInit /\ FnIdle /\ feeds = PlainFeeds

SpecPipe == InitPipe /\ [][PipeNext]_vars

\* the service
Init ==
    /\ sdnRows = <<>> /\ altRows = <<>> /\ addRows = <<>>
    /\ entities = <<>> /\ before = <<>> /\ once = <<>>
    /\ stage = "rows" /\ passes = 0
    /\ SvcInit
    /\ FnIdle
    /\ feeds = PlainFeeds

Next == SvcNext

Spec == Init /\ [][Next]_vars

\* the pure functions, over every bounded choice of argument
PipeIdle ==
    /\ sdnRows = <<>> /\ altRows = <<>> /\ addRows = <<>>
    /\ entities = <<>> /\ before = <<>> /\ once = <<>>
    /\ stage = "rows" /\ passes = 0

InitFn == PipeIdle /\ SvcInit /\ FnInit /\ feeds = PlainFeeds

SpecFn == InitFn /\ [][FnNext]_vars

\* the readers
InitRead == PipeIdle /\ FnIdle /\ ReadInit /\ feeds = PlainFeeds

SpecRead == InitRead /\ [][ReadNext]_vars

\* runs one after another, and the metadata reader
InitSeq == PipeIdle /\ SvcInit /\ FnIdle /\ feeds = FeedsWithEmptyTables

SpecSeq == InitSeq /\ [][SeqNext]_vars

\* runs one after another, and two search requests that may overlap
InitOverlap == PipeIdle /\ SvcInit /\ FnIdle /\ feeds = PlainFeeds

SpecOverlap == InitOverlap /\ [][OverlapNext]_vars

-----------------------------------------------------------------------------
(* What the claims speak of, stated without the code's operators *)

NonBlank(v) == v # Undef /\ v # Null /\ trim(v) # <<>>

Least(S) == CHOOSE i \in S : \A j \in S : i <= j

\* the value of the earliest candidate key holding a non-blank value, else Undef
Resolved(row, keys) ==
    LET good == {i \in 1..Len(keys) : NonBlank(Get(row, keys[i]))}
    IN  IF good = {} THEN Undef ELSE Get(row, keys[Least(good)])

HasValue(row, keys) == \E i \in 1..Len(keys) : NonBlank(Get(row, keys[i]))

ValidPrimary(row) == HasValue(row, UID_KEYS) /\ HasValue(row, NAME_KEYS)

UidsDistinct(ents) ==
    \A i, j \in 1..Len(ents) : i # j => ents[i].uid # ents[j].uid

Holds(ents, uid) == \E i \in 1..Len(ents) : ents[i].uid = uid

\* an alias row that the claims call skipped: no uid, no alt_name, or no entity
AltRowInert(ents, row) ==
    \/ ~HasValue(row, UID_KEYS)
    \/ ~HasValue(row, ALT_NAME_KEYS)
    \/ ~Holds(ents, Resolved(row, UID_KEYS))

\* an address row whose uid is absent or matches no entity
AddRowInert(ents, row) ==
    \/ ~HasValue(row, UID_KEYS)
    \/ ~Holds(ents, Resolved(row, UID_KEYS))

AltRowLive(row) == ~AltRowInert(before, row)
AddRowLive(row) == ~AddRowInert(before, row)

\* C1: extractEntities returns one entity per row whose uid and name both
\* resolve to a non-blank value, in row order, carrying those two values;
\* the other rows are skipped.
C1_ExtractionCompleteness ==
    stage = "extracted" =>
        LET valid == SelectSeq(sdnRows, ValidPrimary)
        IN  /\ Len(entities) = Len(valid)
            /\ \A i \in 1..Len(valid) :
                  /\ entities[i].uid = Resolved(valid[i], UID_KEYS)
                  /\ entities[i].name = Resolved(valid[i], NAME_KEYS)
                  /\ NonBlank(entities[i].uid)
                  /\ NonBlank(entities[i].name)

\* a kept row resolved through a fallback key stands next to a skipped row
C1_Witness ==
    /\ stage = "extracted"
    /\ Len(sdnRows) = 3
    /\ Len(entities) = 2
    /\ \E i \in 1..2 : entities[i].name = <<"C">>

\* C2: in every entity collection of a run the uid values are pairwise distinct.
C2_UidsUnique == stage # "rows" => UidsDistinct(entities)

\* C3: a second alias+address pass with the same rows leaves the serialized
\* collection as it was after the first pass.
C3_ConsolidationIdempotent ==
    (stage = "add" /\ passes = 2) => stringify(entities) = stringify(once)

\* C8: alias rows without uid, without alt_name or without a matching entity,
\* and address rows without uid or without a matching entity, change nothing:
\* the result is the result of the other rows alone, and the collection is
\* untouched when no other row is given.
C8_InertRowsChangeNothing ==
    /\ stage = "alt" =>
          /\ entities = consolidateAltData(before, SelectSeq(altRows, AltRowLive))
          /\ (\A i \in 1..Len(altRows) : AltRowInert(before, altRows[i]))
                => entities = before
    /\ stage = "add" =>
          /\ entities = consolidateAddData(before, SelectSeq(addRows, AddRowLive))
          /\ (\A i \in 1..Len(addRows) : AddRowInert(before, addRows[i]))
                => entities = before

\* an alias pass over a row without uid, a row with a blank alt_name and a
\* row for an unknown uid, on a non-empty collection
C8_Witness ==
    /\ stage = "alt"
    /\ entities # <<>>
    /\ entities = before
    /\ \E i \in 1..Len(altRows) : ~HasValue(altRows[i], UID_KEYS)
    /\ \E i \in 1..Len(altRows) :
          HasValue(altRows[i], UID_KEYS) /\ ~HasValue(altRows[i], ALT_NAME_KEYS)
    /\ \E i \in 1..Len(altRows) :
          /\ HasValue(altRows[i], UID_KEYS) /\ HasValue(altRows[i], ALT_NAME_KEYS)
          /\ ~Holds(before, Resolved(altRows[i], UID_KEYS))

\* the alt_name values of the rows naming the uid, in row order
RECURSIVE AliasesOf(_, _)
AliasesOf(uid, rows) ==
    IF rows = <<>> THEN <<>>
    ELSE (IF /\ HasValue(Head(rows), UID_KEYS)
             /\ Resolved(Head(rows), UID_KEYS) = uid
             /\ HasValue(Head(rows), ALT_NAME_KEYS)
          THEN <<Resolved(Head(rows), ALT_NAME_KEYS)>>
          ELSE <<>>)
         \o AliasesOf(uid, Tail(rows))

Field(row, keys) == IF HasValue(row, keys) THEN Resolved(row, keys) ELSE Undef

\* the address records of the rows naming the uid, in row order
RECURSIVE AddressesOf(_, _)
AddressesOf(uid, rows) ==
    IF rows = <<>> THEN <<>>
    ELSE (IF /\ HasValue(Head(rows), UID_KEYS)
             /\ Resolved(Head(rows), UID_KEYS) = uid
             /\ \/ HasValue(Head(rows), ADDRESS_KEYS)
                \/ HasValue(Head(rows), CITY_KEYS)
                \/ HasValue(Head(rows), COUNTRY_KEYS)
          THEN << [ address |-> Field(Head(rows), ADDRESS_KEYS),
                    city |-> Field(Head(rows), CITY_KEYS),
                    country |-> Field(Head(rows), COUNTRY_KEYS) ] >>
          ELSE <<>>)
         \o AddressesOf(uid, Tail(rows))

\* C9: after consolidateAltData every entity's aka is its previous aka
\* followed by the alt_name of each alias row naming its uid, in row order.
C9_AkaOfEveryEntity ==
    stage = "alt" =>
        /\ Len(entities) = Len(before)
        /\ \A i \in 1..Len(before) :
              entities[i].aka = before[i].aka \o AliasesOf(before[i].uid, altRows)

\* C10: after consolidateAddData every entity's addresses is its previous
\* addresses followed by one record per address row naming its uid that
\* resolves at least one of address, city, country, in row order.
C10_AddressesOfEveryEntity ==
    stage = "add" =>
        /\ Len(entities) = Len(before)
        /\ \A i \in 1..Len(before) :
              entities[i].addresses =
                  before[i].addresses \o AddressesOf(before[i].uid, addRows)

\* C4: a run that failed, at whatever step, has written neither
\* dataset.json.gz nor meta.json.
C4_FailedRunWroteNothing ==
    \A r \in Runs : run[r].pc = "failed" => run[r].written = {}

\* C5: a failed fetch of the alias table or of the address table does not
\* abort the run.
C5_AuxiliaryFetchFailureNotFatal ==
    \A r \in Runs : run[r].failedAt \notin {"fetch_alt", "fetch_add"}

CompleteDataset(t) ==
    gzipSync(stringify(
        consolidateAddData(
            consolidateAltData(extractEntities(parseCSV(t[1]).rows), parseCSV(t[2]).rows),
            parseCSV(t[3]).rows)))

\* the texts a run can fetch and parse, and the dataset each has to give
Fetchable ==
    {t \in SdnCsvSet \X AltCsvSet \X AddCsvSet : t[1].closed /\ t[2].closed /\ t[3].closed}

\* <<texts, dataset, decoded dataset>>
Datasets ==
    {<<t, CompleteDataset(t), parse(gunzipSync(CompleteDataset(t)))>> : t \in Fetchable}

\* C7: the blob in the store, every blob a reader obtained and every cached
\* snapshot is the whole encoded collection of one run that wrote the dataset.
C7_ReadersSeeOneWholeRun ==
    /\ store.dataset # <<>> =>
          \E d \in Datasets : d[1] \in persisted /\ store.dataset[1] = d[2]
    /\ req.gz # <<>> =>
          \E d \in Datasets : d[1] \in persisted /\ req.gz[1] = d[2]
    /\ cached # <<>> =>
          \E d \in Datasets : d[1] \in persisted /\ cached[1].entities = d[3]

\* two runs overlap, both have replaced the dataset with different content,
\* and a reader holds the blob of the one that wrote first
C7_Witness ==
    /\ \A r \in Runs : run[r].pc = "write_meta"
    /\ run["u1"].payloadGz # run["u2"].payloadGz
    /\ req.pc = "get"
    /\ req.gz # <<>>
    /\ req.gz # store.dataset


-----------------------------------------------------------------------------
\* an address record carrying a non-blank address, city or country
AddressHasField(a) == NonBlank(a.address) \/ NonBlank(a.city) \/ NonBlank(a.country)

RECURSIVE TotalAddresses(_)
TotalAddresses(ents) ==
    IF ents = <<>> THEN 0
    ELSE Len(Head(ents).addresses) + TotalAddresses(Tail(ents))

\* an address row with a matching uid and a non-blank address, city or country
AddRowCarriesField(row) ==
    /\ AddRowLive(row)
    /\ HasValue(row, ADDRESS_KEYS) \/ HasValue(row, CITY_KEYS) \/ HasValue(row, COUNTRY_KEYS)

\* C11: after extraction and any number of address consolidations every
\* address record of every entity has a non-blank address, city or country,
\* and an address pass adds one record per row that has a matching uid and
\* such a field, so none for a matching row whose three fields are blank.
C11_EveryAddressHasAField ==
    /\ \A i \in 1..Len(entities) : \A j \in 1..Len(entities[i].addresses) :
          AddressHasField(entities[i].addresses[j])
    /\ stage = "add" =>
          TotalAddresses(entities) =
              TotalAddresses(before) + Len(SelectSeq(addRows, AddRowCarriesField))

\* an address pass over a row with a matching uid and three blank fields, and
\* over a row that did add a record
C11_Witness ==
    /\ stage = "add"
    /\ \E i \in 1..Len(addRows) :
          AddRowLive(addRows[i]) /\ ~AddRowCarriesField(addRows[i])
    /\ TotalAddresses(entities) > TotalAddresses(before)

IsPrefix(s, t) == Len(s) <= Len(t) /\ SubSeq(t, 1, Len(s)) = s

\* C12: a consolidation pass returns as many entities as it was given, in the
\* same order, each with its uid, name, type, programs and remarks unchanged
\* and with its former aka and addresses as a prefix of the new ones; the
\* alias pass leaves addresses unchanged and the address pass leaves aka
\* unchanged.
C12_ConsolidationPurelyAdditive ==
    stage \in {"alt", "add"} =>
        /\ Len(entities) = Len(before)
        /\ \A i \in 1..Len(entities) :
              /\ entities[i].uid = before[i].uid
              /\ entities[i].name = before[i].name
              /\ entities[i].type = before[i].type
              /\ entities[i].programs = before[i].programs
              /\ entities[i].remarks = before[i].remarks
              /\ IsPrefix(before[i].aka, entities[i].aka)
              /\ IsPrefix(before[i].addresses, entities[i].addresses)
              /\ stage = "alt" => entities[i].addresses = before[i].addresses
              /\ stage = "add" => entities[i].aka = before[i].aka

\* an alias pass that appended to an entity already holding an alias and an
\* address
C12_Witness ==
    /\ stage = "alt"
    /\ \E i \in 1..Len(entities) :
          /\ before[i].aka # <<>>
          /\ before[i].addresses # <<>>
          /\ Len(entities[i].aka) > Len(before[i].aka)


-----------------------------------------------------------------------------
\* two objects with the same keys and the same value under every key
SameObject(a, b) == DOMAIN a = DOMAIN b /\ \A k \in DOMAIN a : a[k] = b[k]

SameEntity(a, b) ==
    /\ DOMAIN a = DOMAIN b
    /\ \A k \in DOMAIN a \ {"addresses"} : a[k] = b[k]
    /\ Len(a.addresses) = Len(b.addresses)
    /\ \A i \in 1..Len(a.addresses) : SameObject(a.addresses[i], b.addresses[i])

\* C13: decoding the encoding of an entity sequence yields the sequence
\* itself: as many entities, in the same order, each with the same keys
\* (absent stays absent, present stays present) and the same values.
C13_RoundTripPreservesFields ==
    (fnOp = "roundTrip" /\ Len(fnOut) = 2) =>
        /\ Len(fnOut[2]) = Len(fnArg)
        /\ \A i \in 1..Len(fnArg) : SameEntity(fnOut[2][i], fnArg[i])

HeaderOutChars ==
    {LowerCase[i] : i \in 1..26} \cup Digits \cup {"_"}

\* C14: normalizeHeader returns a string for every header, and applied to
\* what it returned it returns the same string.
C14_NormalizeHeaderTotalIdempotent ==
    fnOp = "normalizeHeader" =>
        /\ Len(fnOut) >= 1 => fnOut[1] \in Seq(HeaderOutChars)
        /\ Len(fnOut) = 2 => fnOut[2] = fnOut[1]

\* a header that normalizeHeader changed, to a non-empty key holding an
\* underscore, normalized a second time
C14_Witness ==
    /\ fnOp = "normalizeHeader"
    /\ Len(fnOut) = 2
    /\ fnOut[1] # fnArg
    /\ \E i \in 1..Len(fnOut[1]) : fnOut[1][i] = "_"
    /\ \E i \in 1..Len(fnArg) : fnArg[i] \in {"-", " "}

\* the canonical key as the specification words it; a byte-order mark is not
\* counted as whitespace
PlainSpace == {" ", "\t", "\n", "\r"}

stripLeadingBom(h) == IF h # <<>> /\ Head(h) = BOM THEN Tail(h) ELSE h

RECURSIVE dropLeadingSpace(_)
dropLeadingSpace(h) ==
    IF h # <<>> /\ Head(h) \in PlainSpace THEN dropLeadingSpace(Tail(h)) ELSE h

RECURSIVE dropTrailingSpace(_)
dropTrailingSpace(h) ==
    IF h # <<>> /\ h[Len(h)] \in PlainSpace
    THEN dropTrailingSpace(SubSeq(h, 1, Len(h) - 1))
    ELSE h

KeptInKey(c) == IsWord(c) \/ c \in PlainSpace \/ c = "-"

\* every maximal run of whitespace and hyphens gives one underscore
RECURSIVE collapseRuns(_, _)
collapseRuns(h, inRun) ==
    IF h = <<>> THEN <<>>
    ELSE IF Head(h) \in PlainSpace \cup {"-"}
         THEN (IF inRun THEN <<>> ELSE <<"_">>) \o collapseRuns(Tail(h), TRUE)
         ELSE <<Head(h)>> \o collapseRuns(Tail(h), FALSE)

CanonicalKey(h) ==
    collapseRuns(
        SelectSeq(toLowerCase(dropTrailingSpace(dropLeadingSpace(stripLeadingBom(h)))),
                  KeptInKey),
        FALSE)

\* C15: each header normalizer of the ingestion path returns the canonical
\* key of its header, and the normalizer written out in ofac-update.ts
\* returns what normalizeHeader of ofac-parser.ts returns.
C15_NormalizersComputeCanonicalKey ==
    /\ (fnOp = "normalizeHeader" /\ Len(fnOut) >= 1) =>
          fnOut[1] = CanonicalKey(fnArg)
    /\ (fnOp = "normalizeHeaderInlined" /\ Len(fnOut) = 1) =>
          /\ fnOut[1] = CanonicalKey(fnArg)
          /\ fnOut[1] = normalizeHeader(fnArg)

\* C16: firstDefined returns the value of the earliest candidate key whose
\* value is neither undefined nor null nor blank after trimming, and
\* undefined when there is none; it never returns a blank value.
C16_FirstDefinedEarliestNonBlank ==
    (fnOp = "firstDefined" /\ Len(fnOut) = 1) =>
        /\ fnOut[1] = Resolved(fnArg[1], fnArg[2])
        /\ fnOut[1] # Undef => trim(fnOut[1]) # <<>>
        /\ fnOut[1] = Undef <=> ~HasValue(fnArg[1], fnArg[2])

\* a call where the first candidate holds only whitespace and a later
\* candidate is returned
C16_Witness ==
    /\ fnOp = "firstDefined"
    /\ Len(fnOut) = 1
    /\ Get(fnArg[1], fnArg[2][1]) = <<" ">>
    /\ fnOut[1] # Undef
    /\ fnOut[1] # <<" ">>


-----------------------------------------------------------------------------
\* C17: whatever the limit parameter, a successful search response holds at
\* most 50 results, at most the requested limit when a numeric one is given,
\* at most 20 when none is given, and its count is the number of results.
C17_LimitBoundsResults ==
    (req.pc = "done" /\ req.response[1].status = 200) =>
        LET r == req.response[1]
            given == Truthy(req.limitParam)
        IN  /\ r.count = Len(r.results)
            /\ Len(r.results) <= MaxLimit
            /\ (given /\ ~Number(req.limitParam).nan) =>
                   Len(r.results) <= Number(req.limitParam).val
            /\ ~given => Len(r.results) <= DefaultLimit

\* the entities the entity handler last loaded
Loaded == cachedEntities[1].entities

\* C18: the entity handler answers 400 "Missing :uid" exactly when the uid
\* parameter is missing, and then without reading the store; 404 "Not
\* found" with the uid only when no loaded entity has the uid; 200 with the
\* whole record of a loaded entity with that uid otherwise; and when no
\* dataset is persisted a request with a uid fails with "No dataset yet.",
\* which is no response of status 400 or 404.
C18_EntityOutcomesDistinct ==
    /\ ereq.pc = "done" =>
          LET r == ereq.response[1]
          IN  /\ r.status \in {200, 400, 404}
              /\ r.status = 400 <=> ereq.uid \in {Undef, <<>>}
              /\ r.status = 400 =>
                    /\ ~r.ok /\ r.error = "Missing :uid"
                    /\ ~ereq.read
              /\ r.status = 404 =>
                    /\ ~r.ok /\ r.error = "Not found" /\ r.uid = ereq.uid
                    /\ \A i \in 1..Len(Loaded) : Loaded[i].uid # ereq.uid
              /\ r.status = 200 =>
                    /\ r.ok
                    /\ \E i \in 1..Len(Loaded) :
                          Loaded[i].uid = ereq.uid /\ SameEntity(r.entity, Loaded[i])
              /\ r.status # 400 => store.dataset # <<>>
    /\ ereq.pc = "failed" =>
          /\ store.dataset = <<>>
          /\ ereq.uid \notin {Undef, <<>>}
          /\ ereq.response = <<>>
          /\ ereq.error = "No dataset yet."
    /\ (store.dataset = <<>> /\ ereq.pc \in {"done", "failed"}
            /\ ereq.uid \notin {Undef, <<>>}) => ereq.pc = "failed"

\* a lookup answered 200 with an entity that has a type, remarks and an
\* address
C18_Witness ==
    /\ ereq.pc = "done"
    /\ ereq.response[1].status = 200
    /\ ereq.response[1].entity.addresses # <<>>
    /\ "remarks" \in DOMAIN ereq.response[1].entity

\* C19 as claimed: no search or entity response is computed from a snapshot
\* read from the store more than 10 minutes before the response.
C19_StalenessBoundedSinceRead ==
    /\ (req.pc = "done" /\ req.response[1].status = 200) =>
          req.response[1].staleness <= CacheMinutes
    /\ (ereq.pc = "done" /\ ereq.response[1].status \in {200, 404}) =>
          ereq.response[1].staleness <= CacheMinutes

\* C19: a search or entity request answered from the cache is answered from
\* a snapshot whose load completed less than 10 minutes before.
C19_StalenessBoundedSinceLoad ==
    [][ /\ (req.pc # "get" /\ req'.pc = "done" /\ req' # req
               /\ req'.response[1].status = 200) =>
              now - cached[1].loadedAt < CacheMinutes
        /\ (ereq.pc # "get" /\ ereq'.pc = "done" /\ ereq' # ereq
               /\ ereq'.response[1].status \in {200, 404}) =>
              now - cachedEntities[1].loadedAt < CacheMinutes ]_vars

\* a search answered from the cache some minutes after the load completed,
\* the load having itself taken some minutes
C19_Witness ==
    /\ req.pc = "done"
    /\ req.response[1].status = 200
    /\ cached # <<>>
    /\ cached[1].readAt < cached[1].loadedAt
    /\ cached[1].loadedAt < now
    /\ req.response[1].staleness = now - cached[1].readAt


-----------------------------------------------------------------------------
\* for the texts of every run that can write: <<texts, dataset, the numbers
\* of rows parsed from the three texts, the number of entities in the dataset>>
RunFacts ==
    { <<d[1], d[2], Len(parseCSV(d[1][1]).rows), Len(parseCSV(d[1][2]).rows),
        Len(parseCSV(d[1][3]).rows), Len(parse(gunzipSync(d[2])))>> : d \in Datasets }

\* the metadata m describes the run of which c holds the facts
Describes(m, c) ==
    /\ m.counts = [ sdnRows |-> c[3], altRows |-> c[4], addRows |-> c[5],
                    entities |-> c[6] ]
    /\ m.counts.entities <= m.counts.sdnRows
    /\ m.source = [sdnUrl |-> sdnUrl, altUrl |-> altUrl, addUrl |-> addUrl]
    /\ m.hashes = [ sdnSha256 |-> sha256(c[1][1]), altSha256 |-> sha256(c[1][2]),
                    addSha256 |-> sha256(c[1][3]) ]

\* C20: the metadata record of a run carries the numbers of parsed rows of
\* the three tables, the number of entities of the dataset the same run
\* wrote (at most the number of SDN rows), the three source URLs, the hashes
\* of the three raw texts and the time the run started; and the record in
\* the store is such a record of some run that wrote its dataset.
C20_MetaDescribesItsRun ==
    /\ \A r \in Runs :
          run[r].pc \in {"write_dataset", "write_meta"} =>
              /\ \E c \in RunFacts :
                    /\ c[1] = <<run[r].sdnCsv, run[r].altCsv, run[r].addCsv>>
                    /\ c[2] = run[r].payloadGz[1]
                    /\ Describes(run[r].meta[1], c)
              /\ run[r].meta[1].fetchedAt = run[r].fetchedAt
              /\ run[r].meta[1].fetchedAt <= now
    /\ store.meta # <<>> =>
          \E c \in RunFacts : c[1] \in persisted /\ Describes(store.meta[1], c)

\* a run that has written its dataset and is about to write a metadata
\* record counting fewer entities than SDN rows, while the store holds the
\* record of an earlier run
C20_Witness ==
    /\ store.meta # <<>>
    /\ \E r \in Runs :
          /\ run[r].pc = "write_meta"
          /\ run[r].meta[1].counts.entities > 0
          /\ run[r].meta[1].counts.entities < run[r].meta[1].counts.sdnRows
          /\ run[r].meta # store.meta


\* C21: the metadata handler answers with what store.get resolved with: the
\* record under meta.json at the time of the read, unmodified, with status
\* 200, or 404 with ok false and an error message when there is none; and a
\* step of the handler leaves the store as it was
C21_MetaHandlerReturnsStoredRecord ==
    [][ /\ (mreq'.pc = "get" /\ mreq.pc # "get") => mreq'.meta = store.meta
        /\ (mreq.pc = "get" /\ mreq'.pc = "done") =>
              LET resp == mreq'.response[1]
              IN  IF mreq.meta = <<>>
                  THEN resp.status = 404 /\ resp.ok = FALSE /\ resp.error # ""
                  ELSE resp.status = 200 /\ resp.body = mreq.meta[1]
        /\ mreq' # mreq => store' = store ]_vars

\* a second run has persisted its metadata, and the handler answered with it
C21_Witness ==
    /\ mreq.pc = "done"
    /\ store.meta # <<>>
    /\ mreq.response[1].status = 200
    /\ mreq.response[1].body = store.meta[1]
    /\ starts = 2
    /\ mreq.response[1].body.fetchedAt > 0

\* the stretches of s between its commas and semicolons that hold a
\* character other than white space, as pairs of first and last index
ProgramPieces(s) ==
    { p \in (1..Len(s)) \X (1..Len(s)) :
        /\ p[1] <= p[2]
        /\ \A i \in p[1]..p[2] : s[i] \notin Delims
        /\ p[1] = 1 \/ s[p[1] - 1] \in Delims
        /\ p[2] = Len(s) \/ s[p[2] + 1] \in Delims
        /\ \E i \in p[1]..p[2] : s[i] \notin WhiteSpace }

\* the stretch from its first to its last character that is not white space
Stripped(s, p) ==
    LET ink == {i \in p[1]..p[2] : s[i] \notin WhiteSpace}
    IN  SubSeq(s, Least(ink), CHOOSE i \in ink : \A j \in ink : j <= i)

\* tags is the stripped pieces of s from left to right
IsTagsOf(tags, s) ==
    LET pieces == ProgramPieces(s)
    IN  /\ Len(tags) = Cardinality(pieces)
        /\ \A p \in pieces :
              tags[Cardinality({o \in pieces : o[1] <= p[1]})] = Stripped(s, p)

\* C22: the programs of an extracted entity are the pieces of the resolved
\* program field (the empty sequence when no key resolves) between runs of
\* commas and semicolons, each trimmed, the empty ones dropped, in the order
\* of the field, duplicates kept; so no tag is empty, begins or ends with
\* white space, or holds a comma or semicolon
C22_ProgramsAreTheTrimmedPieces ==
    (fnOp = "extractEntities" /\ fnOut # <<>>) =>
        /\ Len(fnOut[1]) = 1
        /\ LET programs == fnOut[1][1].programs
               field == Resolved(fnArg, PROGRAM_KEYS)
           IN  /\ IF field = Undef THEN programs = <<>> ELSE IsTagsOf(programs, field)
               /\ \A i \in 1..Len(programs) :
                     /\ programs[i] # <<>>
                     /\ programs[i][1] \notin WhiteSpace
                     /\ programs[i][Len(programs[i])] \notin WhiteSpace
                     /\ \A j \in 1..Len(programs[i]) : programs[i][j] \notin Delims

\* a field with an empty piece, a piece to trim and a tag given twice
C22_Witness ==
    /\ fnOp = "extractEntities"
    /\ fnOut # <<>>
    /\ Get(fnArg, k_programs) = <<"X", ";", ",", "X">>
    /\ fnOut[1][1].programs = << <<"X">>, <<"X">> >>

\* a q parameter that is missing, empty or white space only
BlankQuery(param) ==
    param = Null \/ \A i \in 1..Len(param) : param[i] \in WhiteSpace

\* C23: a search request with a missing, empty or white-space q is answered
\* at once with status 400 and the error "Missing ?q=": the store is not
\* read for it and the process cache stays as it was, with or without a
\* persisted dataset
C23_BlankQueryRefusedBeforeLoad ==
    [][ (req' # req /\ BlankQuery(req'.qParam)) =>
            /\ req'.pc = "done"
            /\ req'.response[1].status = 400
            /\ req'.response[1].ok = FALSE
            /\ req'.response[1].error = "Missing ?q="
            /\ req'.gz = <<>>
            /\ req.pc # "get"
            /\ cached' = cached
            /\ store' = store ]_vars

\* a white-space query refused while a dataset is persisted and cached
C23_Witness ==
    /\ req.pc = "done"
    /\ req.qParam = <<" ">>
    /\ req.response[1].status = 400
    /\ store.dataset # <<>>
    /\ cached # <<>>

\* C24: after the alias pass every alias row was either merged or counted as
\* skipped: mergedCount + skippedCount is the number of alias rows (a row
\* whose uid matches no entity being one of the skipped)
C24_EveryAliasRowCounted ==
    stage = "alt" =>
        LET st == altRun(before, altRows)
        IN  /\ st.entities = entities
            /\ st.mergedCount + st.skippedCount = Len(altRows)

\* the place of a position of the update handler in the order of its stages:
\* fetching (1 to 3), parsing, extracting, consolidating aliases,
\* consolidating addresses, encoding, the two writes, persisted
StageRank(pc) ==
    CASE pc = "fetch_sdn" -> 1
      [] pc = "fetch_alt" -> 2
      [] pc = "fetch_add" -> 3
      [] pc = "parse" -> 4
      [] pc = "build" -> 5
      [] pc = "consolidate_alt" -> 6
      [] pc = "consolidate_add" -> 7
      [] pc = "encode" -> 8
      [] pc = "write_dataset" -> 9
      [] pc = "write_meta" -> 10
      [] pc = "done" -> 11
      [] OTHER -> 0

\* C25: a run goes through its stages in order, one at a time, unless it
\* fails or answers a debug request after parsing; address consolidation
\* starts from the finished alias consolidation of the extracted entities;
\* the store is written only after the three tables are fetched and parsed
\* and the consolidated entities encoded, the blob first, the metadata
\* record second
C25_StagesInOrder ==
    [][ \A r \in SeqRuns :
          LET a == run[r].pc
              b == run'[r].pc
              l == run'[r]
          IN  /\ a # b =>
                    \/ b = "failed"
                    \/ a \in {"idle", "done", "failed"} /\ b = "fetch_sdn"
                    \/ a = "build" /\ b = "done" /\ store' = store
                    \/ StageRank(a) > 0 /\ StageRank(b) = StageRank(a) + 1
              /\ b = "consolidate_add" =>
                    l.entities = consolidateAltData(extractEntities(l.sdnRows), l.altRows)
              /\ b = "write_dataset" =>
                    /\ l.sdnCsv # NoCsv /\ l.altCsv # NoCsv /\ l.addCsv # NoCsv
                    /\ l.sdnRows = parseCSV(l.sdnCsv).rows
                    /\ l.altRows = parseCSV(l.altCsv).rows
                    /\ l.addRows = parseCSV(l.addCsv).rows
                    /\ l.payloadGz = <<gzipSync(stringify(
                           consolidateAddData(
                               consolidateAltData(extractEntities(l.sdnRows), l.altRows),
                               l.addRows)))>>
                    /\ l.written = {}
              /\ store' # store =>
                    \/ /\ a = "write_dataset" /\ b = "write_meta"
                       /\ store' = [store EXCEPT !.dataset = run[r].payloadGz]
                    \/ /\ a = "write_meta" /\ b = "done"
                       /\ "dataset.json.gz" \in run[r].written
                       /\ store' = [store EXCEPT !.meta = run[r].meta] ]_vars

\* a run that went through every stage and persisted entities with an alias
\* and an address
C25_Witness ==
    /\ run["u1"].pc = "done"
    /\ run["u1"].written = {"dataset.json.gz", "meta.json"}
    /\ store.dataset # <<>>
    /\ \E e \in {parse(gunzipSync(store.dataset[1]))[i] :
                   i \in 1..Len(parse(gunzipSync(store.dataset[1])))} :
          e.aka # <<>> /\ e.addresses # <<>>

\* C26: each read handler reads the store only when its cache is empty or
\* was loaded 10 minutes ago or more; a request that needs the dataset and
\* arrives less than 10 minutes after the load is answered from the cached
\* snapshot, without a store read and without touching the cache; the cache
\* changes only when a load completes, snapshot and load time together
C26_StoreReadOnlyWhenCacheStale ==
    [][ /\ (req.pc # "get" /\ req'.pc = "get") =>
              cached = <<>> \/ now - cached[1].loadedAt >= CacheMinutes
        /\ (req.pc # "get" /\ req' # req /\ ~BlankQuery(req'.qParam)
               /\ cached # <<>> /\ now - cached[1].loadedAt < CacheMinutes) =>
              /\ req'.pc = "done" /\ req'.gz = <<>> /\ cached' = cached
              /\ req'.response[1].status = 200
              /\ req'.response[1].staleness = now - cached[1].readAt
              /\ req'.response[1].count <= Len(cached[1].entities)
        /\ cached' # cached =>
              /\ req.pc = "get" /\ req.gz # <<>>
              /\ cached'[1].loadedAt = now
              /\ cached'[1].entities = parse(gunzipSync(req.gz[1]))
        /\ (ereq.pc # "get" /\ ereq'.pc = "get") =>
              cachedEntities = <<>> \/ now - cachedEntities[1].loadedAt >= CacheMinutes
        /\ (ereq.pc # "get" /\ ereq' # ereq /\ Truthy(ereq'.uid)
               /\ cachedEntities # <<>>
               /\ now - cachedEntities[1].loadedAt < CacheMinutes) =>
              /\ ereq'.pc = "done" /\ ~ereq'.read /\ ereq'.gz = <<>>
              /\ cachedEntities' = cachedEntities
              /\ LET resp == ereq'.response[1]
                 IN  \/ resp.status = 404 /\ ereq'.uid \notin DOMAIN cachedEntities[1].byId
                     \/ /\ resp.status = 200
                        /\ resp.entity = cachedEntities[1].byId[ereq'.uid]
        /\ cachedEntities' # cachedEntities =>
              /\ ereq.pc = "get" /\ ereq.gz # <<>>
              /\ cachedEntities'[1].loadedAt = now
              /\ cachedEntities'[1].entities = parse(gunzipSync(ereq.gz[1])) ]_vars

\* an entity request answered from the cache 6 minutes after the load, and
\* a search cache reloaded after it had expired
C26_Witness ==
    /\ ereq.pc = "done" /\ ~ereq.read
    /\ ereq.response[1].status = 200
    /\ cachedEntities # <<>>
    /\ now - cachedEntities[1].loadedAt = TickMinutes
    /\ cached # <<>>
    /\ cached[1].readAt = 2 * TickMinutes

\* C27: with runs one after another, each completing or aborting at some
\* step, and none in progress, the metadata record and the blob in the store
\* come from the same run: counts.entities of meta.json is the number of
\* entities in dataset.json.gz
C27_MetaCountsThePersistedDataset ==
    ( /\ \A r \in SeqRuns : run[r].pc \in {"idle", "done", "failed"}
      /\ store.dataset # <<>>
      /\ store.meta # <<>> ) =>
        store.meta[1].counts.entities = Len(parse(gunzipSync(store.dataset[1])))

\* the entities of the blob in the store
StoredEntities == parse(gunzipSync(store.dataset[1]))

\* C28: with two search requests of one process overlapping and a run
\* persisting a dataset between their store reads, a cached snapshot of the
\* dataset now in the store is never replaced by a snapshot of an earlier one
C28_CacheNeverGoesBack ==
    [][ ( /\ cached # <<>>
          /\ cached' # cached
          /\ store.dataset # <<>>
          /\ cached[1].entities = StoredEntities ) =>
            cached'[1].entities = StoredEntities ]_vars

\* the keys a table's first record gets: the normalized header cells, as many
\* as the record has cells; none for a table without records
FirstRowKeys(csvText) ==
    LET rows == parseCSV(csvText).rows
        recs == SelectSeq(csvText.records, IsRecord)
    IN  IF rows = <<>> THEN {}
        ELSE {normalizeHeader(csvText.header[i]) :
                 i \in 1..Least({Len(csvText.header), Len(recs[1])})}

\* the first row of a table, <<>> for null
FirstOf(rows) == IF Len(rows) = 0 THEN <<>> ELSE <<rows[1]>>

\* C29: an update request with debug=1, once the three tables are fetched
\* and parsed, answers with the normalized headers (the keys of each table's
\* first row), the first row of each table and the three row counts, has
\* written nothing, and leaves dataset.json.gz and meta.json as they were
C29_DebugWritesNothing ==
    [][ \A r \in SeqRuns :
          (run[r].pc = "build" /\ run'[r].pc = "done") =>
              LET l == run[r]
                  resp == run'[r].response[1]
                  sdn == parseCSV(l.sdnCsv).rows
                  alt == parseCSV(l.altCsv).rows
                  add == parseCSV(l.addCsv).rows
              IN  /\ store' = store
                  /\ run'[r].written = {}
                  /\ l.sdnCsv \in feeds.sdn /\ l.altCsv \in feeds.alt
                  /\ l.addCsv \in feeds.add
                  /\ resp.status = 200 /\ resp.ok
                  /\ resp.sdnHeaders = FirstRowKeys(l.sdnCsv)
                  /\ resp.altHeaders = FirstRowKeys(l.altCsv)
                  /\ resp.addHeaders = FirstRowKeys(l.addCsv)
                  /\ resp.sdnSampleRow = FirstOf(sdn)
                  /\ resp.altSampleRow = FirstOf(alt)
                  /\ resp.addSampleRow = FirstOf(add)
                  /\ resp.rowCounts =
                        [sdn |-> Len(sdn), alt |-> Len(alt), add |-> Len(add)] ]_vars

\* a debug answer over a primary table of two rows and an alias table
\* without rows, while the store holds the dataset and metadata of an
\* earlier run
C29_Witness ==
    /\ run["u1"].pc = "done"
    /\ "rowCounts" \in DOMAIN run["u1"].response[1]
    /\ run["u1"].response[1].rowCounts.sdn > 1
    /\ run["u1"].response[1].altSampleRow = <<>>
    /\ run["u1"].written = {}
    /\ store.dataset # <<>>
    /\ store.meta # <<>>

\* the entity at position i is the last of the collection with its uid
LastWithUid(ents, i) == \A j \in (i + 1)..Len(ents) : ents[j].uid # ents[i].uid

\* what a reader decodes from the blob encoding the collection
Decoded(ents) == parse(gunzipSync(gzipSync(stringify(ents))))

\* C30: among entities sharing a uid, the alias rows and the address rows of
\* that uid are appended to the last one in collection order and the others
\* keep their aka and addresses; and the lookup by uid over the decoded
\* collection gives the last entity with that uid
C30_SharedUidGoesToLastEntity ==
    /\ stage = "alt" =>
          /\ Len(entities) = Len(before)
          /\ \A i \in 1..Len(before) :
                /\ entities[i].aka =
                      IF LastWithUid(before, i)
                      THEN before[i].aka \o AliasesOf(before[i].uid, altRows)
                      ELSE before[i].aka
                /\ entities[i].addresses = before[i].addresses
    /\ stage = "add" =>
          /\ Len(entities) = Len(before)
          /\ \A i \in 1..Len(before) :
                /\ entities[i].addresses =
                      IF LastWithUid(before, i)
                      THEN before[i].addresses \o AddressesOf(before[i].uid, addRows)
                      ELSE before[i].addresses
                /\ entities[i].aka = before[i].aka
    /\ stage # "rows" =>
          LET read == Decoded(entities)
              byId == newMap(read)
          IN  /\ DOMAIN byId = {entities[i].uid : i \in 1..Len(entities)}
              /\ \A i \in 1..Len(entities) :
                    LastWithUid(entities, i) => byId[entities[i].uid] = read[i]

\* two entities with one uid after both passes: the alias and the address
\* are on the second, the first has neither, and the lookup gives the second
C30_Witness ==
    /\ stage = "add"
    /\ Len(entities) = 2
    /\ entities[1].uid = entities[2].uid
    /\ entities[1].name # entities[2].name
    /\ entities[1].aka = <<>> /\ entities[1].addresses = <<>>
    /\ entities[2].aka # <<>> /\ entities[2].addresses # <<>>
    /\ newMap(Decoded(entities))[entities[1].uid].name = entities[2].name

=============================================================================
